---------------------------- MODULE Spec2Model ----------------------------
(***************************************************************************)
(* Fivegram: the mapping and synchronization engine.                       *)
(*                                                                         *)
(* Texts (the pinned records) are sequences of one-character strings, so   *)
(* that encoding and decoding are computed character by character as the   *)
(* JavaScript source computes them.                                        *)
(***************************************************************************)
EXTENDS Integers, Sequences, FiniteSets, TLC

(***************************************************************************)
(* Values of the JavaScript run time.                                      *)
(***************************************************************************)
(* undefined and null ids are written 0: the code tests them by           *)
(* truthiness and no chat, thread or message has id 0.  An absent string   *)
(* is the empty string <<>>, which is falsy too.  The result of parseInt   *)
(* is a sequence: <<>> for NaN, <<n>> for the number n.                    *)
Truthy(x) == x # 0
NaN == <<>>
IsNaN(r) == r = <<>>

DigitChars == <<"0", "1", "2", "3", "4", "5", "6", "7", "8", "9">>
DigitSet == {DigitChars[i] : i \in 1..10}
DigitVal(c) == (CHOOSE i \in 1..10 : DigitChars[i] = c) - 1

Min(S) == CHOOSE x \in S : \A y \in S : x <= y
Max(S) == CHOOSE x \in S : \A y \in S : x >= y

(* Number.prototype.toString / template literal of an integer. *)
RECURSIVE NatStr(_)
NatStr(n) ==
  IF n < 10 THEN <<DigitChars[n + 1]>>
  ELSE NatStr(n \div 10) \o <<DigitChars[(n % 10) + 1]>>

ToStr(n) == IF n < 0 THEN <<"-">> \o NatStr(0 - n) ELSE NatStr(n)

(* String(x) inside Array.prototype.join: null and undefined become "". *)
JoinStr(x) == IF Truthy(x) THEN ToStr(x) ELSE <<>>

(* parseInt(s, 10): optional sign, then the longest prefix of digits;     *)
(* NaN when there is no digit.                                             *)
RECURSIVE DigitsVal(_, _, _, _)
DigitsVal(s, i, last, acc) ==
  IF i > last THEN acc
  ELSE DigitsVal(s, i + 1, last, acc * 10 + DigitVal(s[i]))

ParseInt(s) ==
  LET neg == Len(s) >= 1 /\ s[1] = "-"
      first == IF neg THEN 2 ELSE 1
      stops == {j \in first..Len(s) : s[j] \notin DigitSet}
      last == IF stops = {} THEN Len(s) ELSE Min(stops) - 1
  IN  IF last < first THEN NaN
      ELSE IF neg THEN <<0 - DigitsVal(s, first, last, 0)>>
      ELSE <<DigitsVal(s, first, last, 0)>>

(* String.prototype.split(sep) for a one-character separator. *)
Split(s, sep) ==
  LET P == SelectSeq([i \in 1..Len(s) |-> i], LAMBDA i : s[i] = sep)
      k == Len(P)
  IN  [j \in 1..(k + 1) |->
         SubSeq(s, IF j = 1 THEN 1 ELSE P[j - 1] + 1,
                   IF j = k + 1 THEN Len(s) ELSE P[j] - 1)]

(* Array.prototype.filter(Boolean) on an array of strings. *)
NonEmpty(x) == x # <<>>
FilterBoolean(segs) == SelectSeq(segs, NonEmpty)

(* Array.prototype.join(sep): the parts lo..hi joined, halving the range    *)
(* so that the evaluation depth stays logarithmic.                         *)
RECURSIVE JoinRange(_, _, _, _)
JoinRange(parts, lo, hi, sep) ==
  IF lo > hi THEN <<>>
  ELSE IF lo = hi THEN parts[lo]
  ELSE LET mid == (lo + hi) \div 2
       IN  JoinRange(parts, lo, mid, sep) \o sep
             \o JoinRange(parts, mid + 1, hi, sep)

Join(parts, sep) == JoinRange(parts, 1, Len(parts), sep)

(* String.prototype.slice(0, n) and Array.prototype.slice(-n). *)
SliceHead(s, n) == SubSeq(s, 1, IF Len(s) < n THEN Len(s) ELSE n)
SliceTail(s, n) == SubSeq(s, IF Len(s) > n THEN Len(s) - n + 1 ELSE 1, Len(s))

(***************************************************************************)
(* A JavaScript Map: a sequence of <<key, value>> pairs in insertion       *)
(* order, keys distinct.                                                   *)
(***************************************************************************)
MapKeys(m) == [i \in 1..Len(m) |-> m[i][1]]
MapHas(m, k) == \E i \in 1..Len(m) : m[i][1] = k
MapGet(m, k) ==
  IF MapHas(m, k) THEN m[CHOOSE i \in 1..Len(m) : m[i][1] = k][2]
  ELSE 0
(* get for a Map whose values are strings: undefined is written <<>>. *)
MapGet2(m, k) ==
  IF MapHas(m, k) THEN m[CHOOSE i \in 1..Len(m) : m[i][1] = k][2]
  ELSE <<>>
MapSet(m, k, v) ==
  IF MapHas(m, k)
  THEN [i \in 1..Len(m) |-> IF m[i][1] = k THEN <<k, v>> ELSE m[i]]
  ELSE Append(m, <<k, v>>)
MapDelete(m, k) == SelectSeq(m, LAMBDA p : p[1] # k)

(* Array indexOf / includes / splice(idx, 1) on the banned list. *)
Pairs(m) == {m[i] : i \in 1..Len(m)}
Includes(a, x) == \E i \in 1..Len(a) : a[i] = x
IndexOf(a, x) == IF Includes(a, x) THEN Min({i \in 1..Len(a) : a[i] = x}) ELSE 0
RemoveAt(a, idx) == SubSeq(a, 1, idx - 1) \o SubSeq(a, idx + 1, Len(a))


(***************************************************************************)
(* The mapping structure (metaData) and its operations.                    *)
(***************************************************************************)
MAX_TEXT_LENGTH == 4096

EmptyMeta ==
  [superGroupChatId |-> 0, topicToFromChat |-> <<>>, fromChatToTopic |-> <<>>,
   bannedTopics |-> <<>>, topicToComment |-> <<>>, fromChatToComment |-> <<>>]

upsertMapping(data, topicId, fromChatId, commentName) ==
  [data EXCEPT
     !.topicToFromChat = MapSet(@, topicId, fromChatId),
     !.fromChatToTopic = MapSet(@, fromChatId, topicId),
     !.topicToComment =
        IF commentName # <<>> THEN MapSet(@, topicId, commentName) ELSE @,
     !.fromChatToComment =
        IF commentName # <<>> THEN MapSet(@, fromChatId, commentName) ELSE @]

(* bannedTopics holds topicId.toString(); decimal printing is one-to-one on *)
(* integers, so the list is kept as the integers themselves.               *)
markBan(data, topicId, banned) ==
  LET idx == IndexOf(data.bannedTopics, topicId)
  IN  IF banned /\ idx = 0
      THEN [data EXCEPT !.bannedTopics = Append(@, topicId)]
      ELSE IF ~banned /\ idx # 0
      THEN [data EXCEPT !.bannedTopics = RemoveAt(@, idx)]
      ELSE data

removeMapping(data, topicId) ==
  LET fromChatId == MapGet(data.topicToFromChat, topicId)
      bannedIdx == IndexOf(data.bannedTopics, topicId)
  IN  [data EXCEPT
         !.fromChatToTopic =
            IF Truthy(fromChatId) THEN MapDelete(@, fromChatId) ELSE @,
         !.fromChatToComment =
            IF Truthy(fromChatId) THEN MapDelete(@, fromChatId) ELSE @,
         !.topicToFromChat = MapDelete(@, topicId),
         !.topicToComment = MapDelete(@, topicId),
         !.bannedTopics = IF bannedIdx # 0 THEN RemoveAt(@, bannedIdx) ELSE @]

(* isTopicBanned answering that no thread is blocked. *)
isTopicBannedNever(metaData, topicId) == FALSE

isTopicBanned(metaData, topicId) == Includes(metaData.bannedTopics, topicId)

(***************************************************************************)
(* Metadata codec: `superGroupId;topicId:[b]fromChatId[:comment];...'.     *)
(***************************************************************************)
(* One `topicId:[b]fromChatId[:comment]' item of the record. *)
parseItem(acc, item) ==
  LET segments == Split(item, ":")
      topicId == ParseInt(segments[1])
      chunk == IF Len(segments) >= 2 THEN segments[2] ELSE <<>>
      banned == Len(chunk) >= 1 /\ chunk[1] = "b"
      userChunk == IF banned THEN SubSeq(chunk, 2, Len(chunk)) ELSE chunk
      fromChatId == ParseInt(userChunk)
      commentName == IF Len(segments) >= 3 THEN segments[3] ELSE <<>>
  IN  IF IsNaN(topicId) \/ IsNaN(fromChatId) THEN acc
      ELSE [acc EXCEPT
              !.topicToFromChat = MapSet(@, topicId[1], fromChatId[1]),
              !.fromChatToTopic = MapSet(@, fromChatId[1], topicId[1]),
              !.bannedTopics = IF banned THEN Append(@, topicId[1]) ELSE @,
              !.topicToComment =
                 IF commentName # <<>> THEN MapSet(@, topicId[1], commentName)
                 ELSE @,
              !.fromChatToComment =
                 IF commentName # <<>>
                 THEN MapSet(@, fromChatId[1], commentName) ELSE @]

(* The for loop over the items lo..hi, in order.  The range is halved so   *)
(* that the evaluation depth stays logarithmic; the test on `left' is      *)
(* always true and only makes TLC evaluate the first half before it goes   *)
(* on to the second.                                                       *)
RECURSIVE parseItems(_, _, _, _)
parseItems(pairs, lo, hi, acc) ==
  IF lo > hi THEN acc
  ELSE IF lo = hi THEN parseItem(acc, pairs[lo])
  ELSE LET mid == (lo + hi) \div 2
           left == parseItems(pairs, lo, mid, acc)
       IN  IF Len(left.topicToFromChat) >= 0
           THEN parseItems(pairs, mid + 1, hi, left)
           ELSE left

(* A NaN group id is falsy like null and is written 0: every handler that  *)
(* saves the structure sets or requires a truthy superGroupChatId first.   *)
parseMetadataText(text) ==
  IF text = <<>> THEN EmptyMeta
  ELSE LET parts == FilterBoolean(Split(text, ";"))
           groupId == IF Len(parts) >= 1 THEN ParseInt(parts[1]) ELSE NaN
       IN  parseItems(parts, 2, Len(parts),
             [EmptyMeta EXCEPT
                !.superGroupChatId = IF IsNaN(groupId) THEN 0 ELSE groupId[1]])

(* comment.replace(/[;:]/g, '') *)
StripDelimiters(comment) == SelectSeq(comment, LAMBDA c : c \notin {";", ":"})

(* An item encoder that forgets the blocked prefix. *)
stringifyItemNoFlag(topicId, fromChatId, bannedTopics, topicToComment) ==
  LET encodedComment == StripDelimiters(MapGet2(topicToComment, topicId))
  IN  ToStr(topicId) \o <<":">> \o ToStr(fromChatId)
        \o (IF encodedComment # <<>> THEN <<":">> \o encodedComment ELSE <<>>)

stringifyItem(topicId, fromChatId, bannedTopics, topicToComment) ==
  LET banned == IF Includes(bannedTopics, topicId) THEN <<"b">> ELSE <<>>
      encodedComment == StripDelimiters(MapGet2(topicToComment, topicId))
  IN  ToStr(topicId) \o <<":">> \o banned \o ToStr(fromChatId)
        \o (IF encodedComment # <<>> THEN <<":">> \o encodedComment ELSE <<>>)

stringifyMetadata(superGroupChatId, topicToFromChat, bannedTopics, topicToComment) ==
  Join(<<JoinStr(superGroupChatId)>>
         \o [i \in 1..Len(topicToFromChat) |->
               stringifyItem(topicToFromChat[i][1], topicToFromChat[i][2],
                             bannedTopics, topicToComment)],
       <<";">>)

stringifyData(data) ==
  stringifyMetadata(data.superGroupChatId, data.topicToFromChat,
                    data.bannedTopics, data.topicToComment)

(* The while loop of trimMetadataEntries: `keys' is what the live key      *)
(* iterator created before the loop still has to yield.  The result is the *)
(* serialized text and the (mutated) structure.                            *)
RECURSIVE trimLoop(_, _, _)
trimLoop(data, serialized, keys) ==
  IF Len(serialized) > MAX_TEXT_LENGTH /\ Len(data.topicToFromChat) > 0
       /\ keys # <<>>
  THEN LET next == removeMapping(data, Head(keys))
       IN  trimLoop(next, stringifyData(next), Tail(keys))
  ELSE [text |-> SliceHead(serialized, MAX_TEXT_LENGTH), data |-> data]

(* A trimmer that cuts the text at the limit without evicting a binding. *)
trimMetadataSliceOnly(data) ==
  [text |-> SliceHead(stringifyData(data), MAX_TEXT_LENGTH), data |-> data]

trimMetadataEntries(data) ==
  LET serialized == stringifyData(data)
  IN  IF Len(serialized) <= MAX_TEXT_LENGTH
      THEN [text |-> serialized, data |-> data]
      ELSE trimLoop(data, serialized, MapKeys(data.topicToFromChat))


(***************************************************************************)
(* Message links: the key-value list and its textual fallback              *)
(* `topicId-topicMessageId:pmMessageId;...' in the group's pinned record.  *)
(***************************************************************************)
MAX_MESSAGE_MAPPING_LENGTH == 4096
MAX_KV_MAPPINGS == 1000

Link(topicId, topicMessageId, pmMessageId) ==
  [topicId |-> topicId, topicMessageId |-> topicMessageId,
   pmMessageId |-> pmMessageId]

NoLink == Link(0, 0, 0)

(* One chunk of parseMessageMappings: <<>> when skipped, else <<link>>. *)
parseMappingChunk(chunk) ==
  LET halves == Split(chunk, ":")
      topicMessageChunk == halves[1]
      pmMessageIdRaw == IF Len(halves) >= 2 THEN halves[2] ELSE <<>>
      ids == Split(topicMessageChunk, "-")
      topicId == ParseInt(ids[1])
      topicMessageId == ParseInt(IF Len(ids) >= 2 THEN ids[2] ELSE <<>>)
      pmMessageId == ParseInt(pmMessageIdRaw)
  IN  IF chunk = <<>> \/ topicMessageChunk = <<>> \/ pmMessageIdRaw = <<>>
      THEN <<>>
      ELSE IF IsNaN(topicId) \/ IsNaN(topicMessageId) \/ IsNaN(pmMessageId)
      THEN <<>>
      ELSE <<Link(topicId[1], topicMessageId[1], pmMessageId[1])>>

parseMessageMappings(text) ==
  IF text = <<>> THEN <<>>
  ELSE LET chunks == Split(text, ";")
           parsed == [i \in 1..Len(chunks) |-> parseMappingChunk(chunks[i])]
           kept == SelectSeq(parsed, NonEmpty)
       IN  [i \in 1..Len(kept) |-> kept[i][1]]

RECURSIVE trimParts(_)
trimParts(parts) ==
  IF Len(Join(parts, <<";">>)) > MAX_MESSAGE_MAPPING_LENGTH /\ Len(parts) > 1
  THEN trimParts(Tail(parts))
  ELSE Join(parts, <<";">>)

trimMappingText(text) == trimParts(FilterBoolean(Split(text, ";")))

mappingEntry(topicId, topicMessageId, pmMessageId) ==
  ToStr(topicId) \o <<"-">> \o ToStr(topicMessageId) \o <<":">>
    \o ToStr(pmMessageId)

(* saveMappingsToKV: the value put under `mapping:<group>'. *)
saveMappingsToKV(mappings) == SliceTail(mappings, MAX_KV_MAPPINGS)

(* The backward scans of findTopicMessageId(KV) and findPmMessageId(KV):   *)
(* the last entry that matches, NoLink when none does.                     *)
(* findTopicMessageId scanning from the oldest link. *)
findTopicMessageIdForward(mappings, pmMessageId) ==
  LET hits == {i \in 1..Len(mappings) : mappings[i].pmMessageId = pmMessageId}
  IN  IF hits = {} THEN NoLink ELSE mappings[Min(hits)]

findTopicMessageId(mappings, pmMessageId) ==
  LET hits == {i \in 1..Len(mappings) : mappings[i].pmMessageId = pmMessageId}
  IN  IF hits = {} THEN NoLink ELSE mappings[Max(hits)]

findPmMessageId(mappings, topicMessageId) ==
  LET hits == {i \in 1..Len(mappings) :
                 mappings[i].topicMessageId = topicMessageId}
  IN  IF hits = {} THEN NoLink ELSE mappings[Max(hits)]

(* The filter of cleanupTopicMessages. *)
cleanupFilter(mappings, topicId) ==
  SelectSeq(mappings, LAMBDA m : m.topicId # topicId)

(***************************************************************************)
(* The relay engine.  One webhook event is processed at a time; the        *)
(* gateway's answers and the key-value store's failures are chosen by the  *)
(* environment.                                                            *)
(***************************************************************************)
Groups == {-1001, -1002}
Users == {5, 6}
Admins == {6}
CopyResponses == {"ok", "message thread not found", "TOPIC_ID_INVALID", "failed"}

MaxEvents == 4
MaxCalmEvents == 6
MaxOpsEvents == 5
MaxFaults == 1
MaxId == 3
MaxCalmId == 5
MaxPm == 2
MaxCopyCalls == 3

VARIABLES
  eventCap,     \* events the run may receive
  calm,         \* creations, copies and saves all succeed, the store never fails
  kvEnabled,    \* env.MESSAGE_MAPPING is bound
  admins,       \* user ids whose member status is creator or administrator
  ownerPinned,  \* pinned message of the owner's chat: <<>> or <<text>>
  groupPinned,  \* pinned message of each group: <<>> or <<text>>
  kvTopics,     \* key `topics:<group>': <<>> or <<mapping structure>>
  kvLinks,      \* key `mapping:<group>': list of message links
  topics,       \* forum threads created in each group
  nextId,       \* next message id of each group (thread ids are message ids)
  nextPm,       \* next message id of each private chat
  ev,           \* the event being processed
  nEvents,      \* events received so far
  nFaults,      \* failed lookups, creations, edits and key-value accesses
  authored,     \* messages people sent for relay: <<chat, thread, message id>>
  ci, cdata, cout, cdec,   \* codec harness: phase, structure, text, decoding
  xi, xgone, xlast,        \* index harness: step, dropped links, last operation
  rw, rsaves,              \* concurrent events: each worker's event, saves made
  api                      \* the gateway call in progress and its requests

engineVars == <<calm, eventCap, kvEnabled, admins, ownerPinned, groupPinned, kvTopics,
                kvLinks, topics, nextId, nextPm, ev, nEvents, nFaults, authored>>
codecVars == <<ci, cdata, cout, cdec>>
indexVars == <<xi, xgone, xlast>>
raceVars == <<rw, rsaves>>
apiVars == <<api>>
vars == <<engineVars, codecVars, indexVars, raceVars, apiVars>>

Call(method, chat, thread, tag) ==
  [method |-> method, chat |-> chat, thread |-> thread, tag |-> tag]

(* A call that names a message of the chat it addresses (for deleteMessages *)
(* the list of messages).                                                  *)
CallOn(method, chat, thread, message, tag) ==
  [method |-> method, chat |-> chat, thread |-> thread, message |-> message,
   tag |-> tag]

(* What an event found when it started: the thread bound to its chat, the  *)
(* numbers of bindings and links stored, the failures so far, and the      *)
(* thread unblocked by the event just before it (0 when none), and the     *)
(* blocked threads.                                                        *)
NothingSeen ==
  [startTopic |-> 0, bindings |-> 0, links |-> 0, faults |-> 0,
   unblocked |-> 0, blocked |-> <<>>]

NoEvent ==
  [kind |-> "none", pc |-> "idle", chat |-> 0, group |-> 0, msgId |-> 0,
   replyTo |-> 0, thread |-> 0, target |-> 0, from |-> 0, hasText |-> TRUE,
   reaction |-> <<>>, edits |-> <<>>, text |-> <<>>, meta |-> EmptyMeta, seen |-> NothingSeen, calls |-> <<>>]

Cost(ok) == IF ok THEN 0 ELSE 1

(* The outcomes a call may have: it fails only where a failure matters and *)
(* while the run's failure budget lasts.                                   *)
Outcomes(relevant) ==
  IF relevant /\ ~calm /\ nFaults < MaxFaults THEN BOOLEAN ELSE {TRUE}

Responses == IF calm THEN {"ok"} ELSE CopyResponses

(* getChatMember may fail at any time. *)
LookupOutcomes == IF calm THEN {TRUE} ELSE BOOLEAN

IdCap == IF calm THEN MaxCalmId ELSE MaxId

CountCalls(e, method) ==
  Cardinality({i \in 1..Len(e.calls) : e.calls[i].method = method})

(* loadMetadata: the text of the owner's pinned message, <<>> when none. *)
loadMetadata == IF ownerPinned = <<>> THEN <<>> ELSE ownerPinned[1]

(* isSupergroupAdmin: a failed lookup carries no status. *)
isSupergroupAdmin(userId, lookupOk) == lookupOk /\ userId \in admins

(* saveTopicMappingToKV: the JSON value put under `topics:<group>', each   *)
(* Map written as the array of its entries.                                *)
saveTopicMappingToKV(metaData) ==
  [superGroupChatId |-> metaData.superGroupChatId,
   topicToFromChat |-> metaData.topicToFromChat,
   fromChatToTopic |-> metaData.fromChatToTopic,
   bannedTopics |-> metaData.bannedTopics,
   topicToComment |-> metaData.topicToComment,
   fromChatToComment |-> metaData.fromChatToComment]

(* loadTopicMappingFromKV: <<>> when the key is absent or the read fails,  *)
(* else the structure rebuilt from the stored arrays.                      *)
loadTopicMappingFromKV(g, getOk) ==
  IF ~kvEnabled \/ ~getOk \/ kvTopics[g] = <<>> THEN <<>>
  ELSE <<saveTopicMappingToKV(kvTopics[g][1])>>

(* The gateway's answer to editMessageText on a message whose text is     *)
(* current: a text equal to the current one is rejected as not modified.   *)
EditAnswer(current, text, editOk) ==
  IF ~editOk THEN "failed"
  ELSE IF text = current THEN "message is not modified"
  ELSE "ok"

(* editMetadata reporting every rejection to the owner. *)
editMetadataReported(current, newText, editOk) ==
  LET safeText == SliceHead(newText, MAX_TEXT_LENGTH)
      resp == EditAnswer(current, safeText, editOk)
  IN  [resp |-> resp, reported |-> resp # "ok",
       text |-> IF resp = "ok" THEN safeText ELSE current]

(* editMetadata on a pinned message whose text is current: the answer, the *)
(* text of the message afterwards, and whether the rejection was reported  *)
(* to the owner (the call is made without ownerUid, so never).             *)
editMetadata(current, newText, editOk) ==
  LET safeText == SliceHead(newText, MAX_TEXT_LENGTH)
      resp == EditAnswer(current, safeText, editOk)
  IN  [resp |-> resp, reported |-> FALSE,
       text |-> IF resp = "ok" THEN safeText ELSE current]

EditNote(ed) == [resp |-> ed.resp, reported |-> ed.reported]

(* updateMapping keeping what the pinned record holds beside the bindings  *)
(* and flags of the structure it is given.                                 *)
updateMappingMerging(data, kvOk, editOk) ==
  LET stored == parseMetadataText(loadMetadata)
      merged ==
        [data EXCEPT
           !.topicToFromChat =
              @ \o SelectSeq(stored.topicToFromChat,
                             LAMBDA p : ~MapHas(data.topicToFromChat, p[1])),
           !.fromChatToTopic =
              @ \o SelectSeq(stored.fromChatToTopic,
                             LAMBDA p : ~MapHas(data.fromChatToTopic, p[1])),
           !.bannedTopics =
              @ \o SelectSeq(stored.bannedTopics,
                             LAMBDA t : ~Includes(data.bannedTopics, t))]
      trimmed == trimMetadataEntries(merged)
  IN  [kvTopics |-> IF kvEnabled /\ Truthy(data.superGroupChatId) /\ kvOk
                    THEN [kvTopics EXCEPT ![data.superGroupChatId] = <<merged>>]
                    ELSE kvTopics,
       ownerPinned |-> IF ownerPinned # <<>>
                       THEN <<editMetadata(ownerPinned[1], trimmed.text,
                                           editOk).text>>
                       ELSE ownerPinned,
       edits |-> <<>>,
       data |-> trimmed.data]

(* updateMapping: key-value copy first, then trim, then edit the pinned    *)
(* message; a failed put or edit is only logged.                           *)
updateMapping(data, kvOk, editOk) ==
  LET trimmed == trimMetadataEntries(data)
  IN  [kvTopics |-> IF kvEnabled /\ Truthy(data.superGroupChatId) /\ kvOk
                    THEN [kvTopics EXCEPT ![data.superGroupChatId] = <<data>>]
                    ELSE kvTopics,
       ownerPinned |-> IF ownerPinned # <<>>
                       THEN <<editMetadata(ownerPinned[1], trimmed.text,
                                           editOk).text>>
                       ELSE ownerPinned,
       edits |-> IF ownerPinned # <<>>
                 THEN <<EditNote(editMetadata(ownerPinned[1], trimmed.text,
                                              editOk))>>
                 ELSE <<>>,
       data |-> trimmed.data]

loadMappingsFromKV(g, getOk) == IF getOk THEN kvLinks[g] ELSE <<>>

(* loadMessageMappingText followed by parseMessageMappings. *)
loadMessageMappingText(g, getOk) ==
  IF getOk /\ groupPinned[g] # <<>> THEN groupPinned[g][1] ELSE <<>>

LoadLinks(g, getOk) ==
  IF kvEnabled THEN loadMappingsFromKV(g, getOk)
  ELSE parseMessageMappings(loadMessageMappingText(g, getOk))

(* addMessageMapping: the stores after the append. *)
addMessageMapping(g, topicId, topicMessageId, pmMessageId, getOk, putOk) ==
  LET text == loadMessageMappingText(g, getOk)
      entry == mappingEntry(topicId, topicMessageId, pmMessageId)
      mappings == Append(loadMappingsFromKV(g, getOk),
                         Link(topicId, topicMessageId, pmMessageId))
  IN  IF kvEnabled
      THEN [kvLinks |-> IF putOk
                        THEN [kvLinks EXCEPT ![g] = saveMappingsToKV(mappings)]
                        ELSE kvLinks,
            groupPinned |-> groupPinned]
      ELSE [kvLinks |-> kvLinks,
            groupPinned |->
              IF ~putOk THEN groupPinned
              ELSE IF text = <<>>
              THEN [groupPinned EXCEPT ![g] = <<entry>>]
              ELSE [groupPinned EXCEPT ![g] =
                      <<trimMappingText(text \o <<";">> \o entry)>>]]

(* cleanupTopicMessages: the key-value list after the purge. *)
cleanupTopicMessages(g, topicId, getOk, putOk) ==
  IF kvEnabled /\ putOk
  THEN [kvLinks EXCEPT ![g] =
          saveMappingsToKV(cleanupFilter(loadMappingsFromKV(g, getOk), topicId))]
  ELSE kvLinks

Ready ==
  /\ ev.pc \in {"idle", "done"}
  /\ nEvents < eventCap

StartOf(kind, chat, group, msgId, replyTo, thread) ==
  [NoEvent EXCEPT !.kind = kind, !.chat = chat, !.group = group,
                  !.msgId = msgId, !.replyTo = replyTo, !.thread = thread]

Done(e, calls) == [e EXCEPT !.pc = "done", !.calls = e.calls \o calls]

(* notifyMessageSent: the delivered marker set on the relayed message.     *)
notifyMessageSent(chatId, topicId) ==
  Call("setMessageReaction", chatId, topicId, "sent")

(* The failed marker replaced by the delivered one. *)
notifyMessageFailedAsSent(chatId, topicId) ==
  Call("setMessageReaction", chatId, topicId, "sent")

(* notifyMessageFailed: the failed marker set on the message that was not  *)
(* relayed.                                                                *)
notifyMessageFailed(chatId, topicId) ==
  Call("setMessageReaction", chatId, topicId, "failed")

(* handleInit: `/init' sent in group g. *)
InitCmd(g) ==
  /\ Ready
  /\ \E kvOk \in Outcomes(kvEnabled), editOk \in Outcomes(TRUE) :
       LET existing == loadMetadata
           parsed == parseMetadataText(existing)
           boundGroupId == IF Truthy(parsed.superGroupChatId)
                           THEN parsed.superGroupChatId ELSE g
           e == StartOf("init", g, g, 0, 0, 0)
           \* ensureMetadata returns the pinned message or pins a new one
           pinnedText == IF existing # <<>> THEN existing ELSE ToStr(g)
           metaData == [parseMetadataText(pinnedText)
                          EXCEPT !.superGroupChatId = g]
           trimmed == trimMetadataEntries(metaData)
       IN  IF existing # <<>> /\ boundGroupId = g
           THEN /\ kvOk /\ editOk
                /\ ev' = Done(e, <<Call("sendMessage", g, 0, "alreadyInitialized")>>)
                /\ UNCHANGED <<ownerPinned, kvTopics, nFaults>>
           ELSE /\ (~kvEnabled => kvOk)
                /\ nFaults + Cost(kvOk) + Cost(editOk) <= MaxFaults
                /\ nFaults' = nFaults + Cost(kvOk) + Cost(editOk)
                /\ kvTopics' = IF kvEnabled /\ kvOk
                               THEN [kvTopics EXCEPT ![g] = <<metaData>>]
                               ELSE kvTopics
                /\ ownerPinned' = <<editMetadata(pinnedText, trimmed.text,
                                                 editOk).text>>
                /\ ev' = Done([e EXCEPT !.meta = trimmed.data,
                                 !.edits = <<EditNote(editMetadata(pinnedText,
                                                trimmed.text, editOk))>>],
                              <<Call("sendMessage", g, 0, "initialized")>>)
  /\ nEvents' = nEvents + 1
  /\ UNCHANGED <<codecVars, apiVars, indexVars, raceVars, authored, calm, eventCap, kvEnabled, admins, groupPinned, kvLinks, topics, nextId,
                 nextPm>>

(* handleReset: `/reset' sent in group g. *)
ResetCmd(g) ==
  /\ Ready
  /\ ownerPinned' = <<>>
  /\ groupPinned' = [groupPinned EXCEPT ![g] = <<>>]
  /\ ev' = Done(StartOf("reset", g, g, 0, 0, 0),
                <<Call("unpinAllChatMessages", 0, 0, "owner"),
                  Call("unpinAllChatMessages", g, 0, "group"),
                  Call("sendMessage", g, 0, "resetDone")>>)
  /\ nEvents' = nEvents + 1
  /\ UNCHANGED <<codecVars, apiVars, indexVars, raceVars, authored, calm, eventCap, kvEnabled, admins, kvTopics, kvLinks, topics, nextId,
                 nextPm, nFaults>>

(* handleBanCommands with banTopic / unbanTopic: the owner sends `/ban',   *)
(* `/silent_ban', `/unban' or `/silent_unban' in thread t of group g.      *)
BanCmd(g, t, banned, silent) ==
  /\ Ready
  /\ t \in topics[g]
  /\ \E kvOk \in Outcomes(kvEnabled), editOk \in Outcomes(TRUE) :
       LET text == loadMetadata
           parsed == parseMetadataText(text)
           metaData == [parsed EXCEPT !.superGroupChatId =
                          IF Truthy(@) THEN @ ELSE g]
           fromChatId == MapGet(metaData.topicToFromChat, t)
           e == StartOf(IF banned THEN "ban" ELSE "unban", g, g, 0, 0, t)
           quiet(tag) ==
             /\ kvOk /\ editOk
             /\ ev' = Done(e, <<Call("sendMessage", g, t, tag)>>)
             /\ UNCHANGED <<ownerPinned, kvTopics, nFaults>>
           marked == markBan(metaData, t, banned)
           r == updateMapping(marked, kvOk, editOk)
           notice == IF silent \/ ~Truthy(fromChatId) THEN <<>>
                     ELSE <<Call("sendMessage", fromChatId, 0,
                                 IF banned THEN "youAreBanned"
                                 ELSE "youAreUnbanned")>>
       IN  IF text = <<>> THEN quiet("noMetadata")
           ELSE IF metaData.superGroupChatId # g THEN quiet("wrongGroup")
           ELSE IF banned /\ ~Truthy(fromChatId) THEN quiet("noMapping")
           ELSE IF banned /\ isTopicBanned(metaData, t)
           THEN quiet("alreadyBanned")
           ELSE IF ~banned /\ ~isTopicBanned(metaData, t)
           THEN quiet("notBanned")
           ELSE /\ (~kvEnabled => kvOk)
                /\ nFaults + Cost(kvOk) + Cost(editOk) <= MaxFaults
                /\ nFaults' = nFaults + Cost(kvOk) + Cost(editOk)
                /\ kvTopics' = r.kvTopics
                /\ ownerPinned' = r.ownerPinned
                /\ ev' = Done([e EXCEPT !.meta = r.data, !.edits = r.edits],
                              <<Call("sendMessage", g, t,
                                     IF banned THEN "banned" ELSE "unbanned")>>
                              \o notice)
  /\ nEvents' = nEvents + 1
  /\ UNCHANGED <<codecVars, apiVars, indexVars, raceVars, authored, calm, eventCap, kvEnabled, admins, groupPinned, kvLinks, topics, nextId,
                 nextPm>>

JustUnblocked ==
  IF ev.kind = "unban" /\ ev.pc = "done"
       /\ \E i \in 1..Len(ev.calls) : ev.calls[i].tag = "unbanned"
  THEN ev.thread ELSE 0

Seen(metaData, u) ==
  [startTopic |-> MapGet(metaData.fromChatToTopic, u),
   bindings |-> Len(metaData.topicToFromChat),
   links |-> Len(LoadLinks(metaData.superGroupChatId, TRUE)),
   faults |-> nFaults,
   unblocked |-> JustUnblocked,
   blocked |-> metaData.bannedTopics]

(* String.prototype.trim for texts whose only white space is the blank.   *)
RECURSIVE TrimStart(_)
TrimStart(str) ==
  IF str # <<>> /\ str[1] = " " THEN TrimStart(Tail(str)) ELSE str
RECURSIVE TrimEnd(_)
TrimEnd(str) ==
  IF str # <<>> /\ str[Len(str)] = " "
  THEN TrimEnd(SubSeq(str, 1, Len(str) - 1)) ELSE str
Trim(str) == TrimEnd(TrimStart(str))

IsDigits(str) == str # <<>> /\ \A i \in 1..Len(str) : str[i] \in DigitSet

(* handlePrivateChat: text && (/^-?\d+$/.test(text) || /^-\d+;/.test(text)) *)
(* for the trimmed text.                                                   *)
LooksLikeMetadata(message) ==
  LET text == Trim(message)
  IN  /\ text # <<>>
      /\ \/ IsDigits(text)
         \/ text[1] = "-" /\ IsDigits(Tail(text))
         \/ /\ text[1] = "-"
            /\ \E k \in 3..Len(text) :
                 text[k] = ";" /\ IsDigits(SubSeq(text, 2, k - 1))

(* handleUpdate's tests in front of handlePrivateChat: the message is      *)
(* taken as a command when its text starts with /start or /status, is #del *)
(* in a reply, or is one of the four block commands.                       *)
StartsWith(str, prefix) ==
  Len(str) >= Len(prefix) /\ SubSeq(str, 1, Len(prefix)) = prefix
LooksLikeCommand(message, isReply) ==
  \/ StartsWith(message, <<"/", "s", "t", "a", "r", "t">>)
  \/ StartsWith(message, <<"/", "s", "t", "a", "t", "u", "s">>)
  \/ isReply /\ Trim(message) = <<"#", "d", "e", "l">>
  \/ message \in {<<"/", "b", "a", "n">>, <<"/", "u", "n", "b", "a", "n">>,
                  <<"/", "s", "i", "l", "e", "n", "t", "_", "b", "a", "n">>,
                  <<"/", "s", "i", "l", "e", "n", "t", "_", "u", "n", "b", "a", "n">>}

PlainText == <<"h", "i">>
PrivateTexts ==
  {PlainText, <<"/", "i", "n", "i", "t">>, <<"4", "2">>, <<"-", "7", ";">>,
   <<" ", "-", "7">>}

(* handlePrivateChat up to its call of forwardPrivateToTopic: user chat u  *)
(* sends a message that is no command, optionally a reply to an earlier    *)
(* message of the chat.                                                    *)
PrivateStart(u, replyTo, message) ==
  /\ Ready
  /\ nextPm[u] <= MaxPm
  /\ replyTo \in 0..(nextPm[u] - 1)
  /\ ~LooksLikeCommand(message, Truthy(replyTo))
  /\ \E lookupOk \in LookupOutcomes :
       LET text == loadMetadata
           metaData == parseMetadataText(text)
           e == [StartOf("private", u, metaData.superGroupChatId, nextPm[u],
                         replyTo, 0) EXCEPT !.text = message]
           notice(tag) == ev' = Done(e, <<Call("sendMessage", u, 0, tag)>>)
       IN  IF LooksLikeMetadata(message) THEN lookupOk /\ ev' = Done(e, <<>>)
           ELSE IF ownerPinned = <<>> THEN notice("notInitialized")
           ELSE IF ~Truthy(metaData.superGroupChatId)
           THEN notice("groupMissing")
           ELSE IF isSupergroupAdmin(u, lookupOk) THEN notice("adminNotice")
           ELSE ev' = [e EXCEPT !.pc = "fwd", !.meta = metaData,
                         !.seen = Seen(metaData, u)]
  /\ nextPm' = [nextPm EXCEPT ![u] = @ + 1]
  /\ nEvents' = nEvents + 1
  /\ authored' = authored \cup {<<u, 0, nextPm[u]>>}
  /\ UNCHANGED <<codecVars, apiVars, indexVars, raceVars, calm, eventCap, kvEnabled, admins, ownerPinned, groupPinned, kvTopics,
                 kvLinks, topics, nextId, nFaults>>

(* The failure of createForumTopic passing without the failed marker.     *)
ensureTopicFailedUnmarked(e, g, u) ==
  Done(e, <<Call("createForumTopic", g, 0, "failed"),
            Call("sendMessage", 0, 0, "createFailed"),
            Call("sendMessage", 0, 0, "relayError")>>)

(* ensureTopic when createForumTopic fails: the report to the owner and    *)
(* the throw, caught by forwardPrivateToTopic with a second report and the *)
(* failed marker on the sender's message (chat 0 stands for the owner's    *)
(* chat).                                                                  *)
ensureTopicFailed(e, g, u) ==
  Done(e, <<Call("createForumTopic", g, 0, "failed"),
            Call("sendMessage", 0, 0, "createFailed"),
            Call("sendMessage", 0, 0, "relayError"),
            notifyMessageFailed(u, 0)>>)

(* forwardPrivateToTopic from its entry through ensureTopic. *)
FwdEnsure ==
  /\ ev.pc = "fwd"
  /\ \E lookupOk \in LookupOutcomes, createOk, editOk \in Outcomes(TRUE),
        kvOk \in Outcomes(kvEnabled) :
       LET u == ev.chat
           g == ev.meta.superGroupChatId
           existingTopicId == MapGet(ev.meta.fromChatToTopic, u)
           banned == Truthy(existingTopicId)
                       /\ isTopicBanned(ev.meta, existingTopicId)
           cost == Cost(createOk) + Cost(kvOk) + Cost(editOk)
           caught(calls, tag) ==
             Done(ev, calls \o
                      <<Call("sendMessage", 0, 0, tag),
                        notifyMessageFailed(u, 0)>>)
           newTopicId == nextId[g]
           r == updateMapping(upsertMapping(ev.meta, newTopicId, u, <<>>),
                              kvOk, editOk)
       IN  /\ nFaults + cost <= MaxFaults
           /\ nFaults' = nFaults + cost
           /\ IF banned
              THEN /\ createOk /\ kvOk /\ editOk
                   /\ ev' = Done(ev, <<Call("sendMessage", u, 0, "blocked")>>)
                   /\ UNCHANGED <<ownerPinned, kvTopics, topics, nextId>>
              ELSE IF Truthy(existingTopicId)
              THEN /\ createOk /\ kvOk /\ editOk
                   /\ ev' = [ev EXCEPT !.pc = "copy", !.thread = existingTopicId]
                   /\ UNCHANGED <<ownerPinned, kvTopics, topics, nextId>>
              ELSE IF isSupergroupAdmin(u, lookupOk)
              THEN /\ createOk /\ kvOk /\ editOk
                   /\ ev' = caught(<<>>, "adminConflict")
                   /\ UNCHANGED <<ownerPinned, kvTopics, topics, nextId>>
              ELSE IF ~createOk
              THEN /\ kvOk /\ editOk
                   /\ ev' = ensureTopicFailed(ev, g, u)
                   /\ UNCHANGED <<ownerPinned, kvTopics, topics, nextId>>
              ELSE /\ newTopicId <= IdCap
                   /\ (~kvEnabled => kvOk)
                   /\ topics' = [topics EXCEPT ![g] = @ \cup {newTopicId}]
                   /\ nextId' = [nextId EXCEPT ![g] = @ + 1]
                   /\ kvTopics' = r.kvTopics
                   /\ ownerPinned' = r.ownerPinned
                   /\ ev' = [ev EXCEPT !.pc = "copy", !.thread = newTopicId,
                               !.meta = r.data, !.edits = @ \o r.edits,
                               !.calls = @ \o <<Call("createForumTopic", g,
                                                    newTopicId, "ok")>>]
  /\ UNCHANGED <<codecVars, apiVars, indexVars, raceVars, authored, calm, eventCap, kvEnabled, admins, groupPinned, kvLinks, nextPm, nEvents>>

(* copyMessage of a relay, with the message_id of its reply_parameters (0  *)
(* when it carries none).                                                  *)
CopyCall(chat, thread, reply, tag) ==
  [method |-> "copyMessage", chat |-> chat, thread |-> thread, tag |-> tag,
   reply |-> reply]

(* The relay keeping to the sender's own thread whatever the reply finds.  *)
targetTopicIdOwn(found, topicId) == topicId

(* forwardPrivateToTopic: the thread of the link found for the message     *)
(* replied to, else the thread ensureTopic returned.                       *)
targetTopicIdOf(found, topicId) ==
  IF Truthy(found.topicId) THEN found.topicId ELSE topicId

(* forwardPrivateToTopic from the reply lookup to its return, or to the    *)
(* recursive call that follows a thread-invalid rejection.                 *)
FwdCopy ==
  /\ ev.pc = "copy"
  /\ CountCalls(ev, "copyMessage") < MaxCopyCalls
  /\ \E resp \in Responses, findOk \in Outcomes(Truthy(ev.replyTo)),
        getOk, putOk, editOk \in Outcomes(TRUE), kvOk \in Outcomes(kvEnabled) :
       LET u == ev.chat
           g == ev.meta.superGroupChatId
           found == IF Truthy(ev.replyTo)
                    THEN findTopicMessageId(LoadLinks(g, findOk), ev.replyTo)
                    ELSE NoLink
           targetTopicId == targetTopicIdOf(found, ev.thread)
           copy == CopyCall(g, targetTopicId, found.topicMessageId, resp)
           cost == Cost(findOk) + Cost(getOk) + Cost(putOk) + Cost(kvOk)
                     + Cost(editOk)
           topicMessageId == nextId[g]
           added == addMessageMapping(g, targetTopicId, topicMessageId,
                                      ev.msgId, getOk, putOk)
           r == updateMapping(removeMapping(ev.meta, targetTopicId),
                              kvOk, editOk)
       IN  /\ nFaults + cost <= MaxFaults
           /\ nFaults' = nFaults + cost
           /\ (~Truthy(ev.replyTo) => findOk)
           /\ IF resp = "ok"
              THEN /\ kvOk /\ editOk
                   /\ topicMessageId <= IdCap
                   /\ nextId' = [nextId EXCEPT ![g] = @ + 1]
                   /\ kvLinks' = added.kvLinks
                   /\ groupPinned' = added.groupPinned
                   /\ ev' = Done([ev EXCEPT !.target = targetTopicId],
                                 <<copy, notifyMessageSent(u, 0)>>)
                   /\ UNCHANGED <<ownerPinned, kvTopics>>
              ELSE IF resp \in {"message thread not found", "TOPIC_ID_INVALID"}
              THEN /\ (~kvEnabled => getOk /\ putOk /\ kvOk)
                   /\ kvLinks' = cleanupTopicMessages(g, targetTopicId, getOk,
                                                      putOk)
                   /\ kvTopics' = r.kvTopics
                   /\ ownerPinned' = r.ownerPinned
                   /\ ev' = [ev EXCEPT !.pc = "fwd", !.target = targetTopicId,
                               !.meta = r.data, !.edits = @ \o r.edits,
                               !.calls = @ \o <<copy>>]
                   /\ UNCHANGED <<groupPinned, nextId>>
              ELSE /\ getOk /\ putOk /\ kvOk /\ editOk
                   /\ ev' = Done([ev EXCEPT !.target = targetTopicId],
                                 <<copy, notifyMessageFailed(u, 0)>>)
                   /\ UNCHANGED <<ownerPinned, groupPinned, kvTopics, kvLinks,
                                  nextId>>
  /\ UNCHANGED <<codecVars, apiVars, indexVars, raceVars, authored, calm, eventCap, kvEnabled, admins, topics, nextPm, nEvents>>

(* handleTopicMessage up to its call of forwardTopicToPrivate: a message   *)
(* that is not a command is posted in thread t of group g.                 *)
TopicStart(g, t, replyTo) ==
  /\ Ready
  /\ t \in topics[g]
  /\ nextId[g] <= IdCap
  /\ replyTo \in 0..(nextId[g] - 1)
  /\ \E lookupOk \in LookupOutcomes :
       LET text == loadMetadata
           metaData == parseMetadataText(text)
           targetChatId == MapGet(metaData.topicToFromChat, t)
           e == StartOf("topic", g, g, nextId[g], replyTo, t)
       IN  IF text = <<>> \/ metaData.superGroupChatId # g
           THEN ev' = Done(e, <<>>)
           ELSE IF ~Truthy(targetChatId)
           THEN ev' = [e EXCEPT !.pc = "tcopy", !.meta = metaData]
           ELSE IF isSupergroupAdmin(targetChatId, lookupOk)
           THEN ev' = Done(e, <<>>)
           ELSE IF isTopicBanned(metaData, t)
           THEN ev' = Done(e, <<>>)
           ELSE ev' = [e EXCEPT !.pc = "tcopy", !.meta = metaData]
  /\ nextId' = [nextId EXCEPT ![g] = @ + 1]
  /\ nEvents' = nEvents + 1
  /\ authored' = authored \cup {<<g, t, nextId[g]>>}
  /\ UNCHANGED <<codecVars, apiVars, indexVars, raceVars, calm, eventCap, kvEnabled, admins, ownerPinned, groupPinned, kvTopics,
                 kvLinks, topics, nextPm, nFaults>>

(* forwardTopicToPrivate. *)
TopicCopy ==
  /\ ev.pc = "tcopy"
  /\ \E resp \in Responses, findOk \in Outcomes(Truthy(ev.replyTo)),
        getOk, putOk, editOk \in Outcomes(TRUE), kvOk \in Outcomes(kvEnabled) :
       LET g == ev.meta.superGroupChatId
           topicId == ev.thread
           targetChatId == MapGet(ev.meta.topicToFromChat, topicId)
           found == IF Truthy(ev.replyTo)
                    THEN findPmMessageId(LoadLinks(g, findOk), ev.replyTo)
                    ELSE NoLink
           copy == CopyCall(targetChatId, 0, found.pmMessageId, resp)
           cost == Cost(findOk) + Cost(getOk) + Cost(putOk) + Cost(kvOk)
                     + Cost(editOk)
           pmMessageId == nextPm[targetChatId]
           added == addMessageMapping(g, topicId, ev.msgId, pmMessageId,
                                      getOk, putOk)
           r == updateMapping(removeMapping(ev.meta, topicId), kvOk, editOk)
           failed == notifyMessageFailed(g, topicId)
       IN  IF ~Truthy(targetChatId)
           THEN /\ resp = "ok" /\ findOk /\ getOk /\ putOk /\ kvOk /\ editOk
                /\ ev' = Done(ev, <<>>)
                /\ UNCHANGED <<ownerPinned, groupPinned, kvTopics, kvLinks,
                               nextPm, nFaults>>
           ELSE /\ nFaults + cost <= MaxFaults
                /\ nFaults' = nFaults + cost
                /\ (~Truthy(ev.replyTo) => findOk)
                /\ IF resp = "ok"
                   THEN /\ kvOk /\ editOk
                        /\ pmMessageId <= MaxPm
                        /\ nextPm' = [nextPm EXCEPT ![targetChatId] = @ + 1]
                        /\ kvLinks' = added.kvLinks
                        /\ groupPinned' = added.groupPinned
                        /\ ev' = Done([ev EXCEPT !.target = targetChatId],
                                      <<copy, notifyMessageSent(g, topicId)>>)
                        /\ UNCHANGED <<ownerPinned, kvTopics>>
                   ELSE IF resp = "TOPIC_ID_INVALID"
                   THEN /\ (~kvEnabled => getOk /\ putOk /\ kvOk)
                        /\ kvLinks' = cleanupTopicMessages(g, topicId, getOk,
                                                           putOk)
                        /\ kvTopics' = r.kvTopics
                        /\ ownerPinned' = r.ownerPinned
                        /\ ev' = Done([ev EXCEPT !.target = targetChatId,
                                                 !.meta = r.data,
                                                 !.edits = @ \o r.edits],
                                      <<copy, failed>>)
                        /\ UNCHANGED <<groupPinned, nextPm>>
                   ELSE /\ getOk /\ putOk /\ kvOk /\ editOk
                        /\ ev' = Done([ev EXCEPT !.target = targetChatId],
                                      <<copy, failed>>)
                        /\ UNCHANGED <<ownerPinned, groupPinned, kvTopics,
                                       kvLinks, nextPm>>
  /\ UNCHANGED <<codecVars, apiVars, indexVars, raceVars, authored, calm, eventCap, kvEnabled, admins, topics, nextId, nEvents>>


(***************************************************************************)
(* Edits and deletions.  The answers of the gateway to editMessageText,    *)
(* deleteMessage and to the sends and copies of these handlers are free.   *)
(***************************************************************************)
EditResponses == {"ok", "can't be edited", "failed"}

(* sendNewMessageWithEditHint. *)
sendNewMessageWithEditHint(g, topicId, u, msgId, copyOk) ==
  <<CallOn("copyMessage", g, topicId, msgId, IF copyOk THEN "ok" ELSE "failed"),
    Call("sendMessage", g, topicId, "editHint")>>

(* notifyMessageEdited: the edited marker, then the delivered marker. *)
notifyMessageEdited(chat, thread, msgId) ==
  <<CallOn("setMessageReaction", chat, thread, msgId, "edited"),
    CallOn("setMessageReaction", chat, thread, msgId, "sent")>>

(* processUserMessageEdit: the calls it issues for an edit of message      *)
(* msgId in user chat u.                                                   *)
processUserMessageEdit(metaData, links, u, msgId, hasText, resp, copyOk) ==
  LET g == metaData.superGroupChatId
      topicId == MapGet(metaData.fromChatToTopic, u)
      found == findTopicMessageId(links, msgId)
      targetTopicId == IF Truthy(found.topicId) THEN found.topicId ELSE topicId
      hint == sendNewMessageWithEditHint(g, targetTopicId, u, msgId, copyOk)
      edit == CallOn("editMessageText", g, 0, found.topicMessageId, resp)
  IN  IF ~Truthy(g) THEN <<>>
      ELSE IF ~Truthy(topicId) THEN <<>>
      ELSE IF isTopicBanned(metaData, topicId) THEN <<>>
      ELSE IF ~Truthy(found.topicMessageId) THEN hint
      ELSE IF hasText
      THEN IF resp = "ok" THEN <<edit>> \o notifyMessageEdited(u, 0, msgId)
           ELSE IF resp = "can't be edited" THEN <<edit>> \o hint
           ELSE <<edit>>
      ELSE <<Call("sendMessage", g, targetTopicId, "textOnly")>>

(* processOwnerMessageEdit: the calls it issues for an edit of message     *)
(* msgId in thread topicId.                                                *)
processOwnerMessageEdit(metaData, links, topicId, msgId, hasText, resp, resendOk) ==
  LET g == metaData.superGroupChatId
      pmChatId == MapGet(metaData.topicToFromChat, topicId)
      found == findPmMessageId(links, msgId)
      edit == CallOn("editMessageText", pmChatId, 0, found.pmMessageId, resp)
  IN  IF ~Truthy(g) THEN <<>>
      ELSE IF ~Truthy(pmChatId) THEN <<>>
      ELSE IF ~Truthy(found.pmMessageId)
      THEN <<Call("sendMessage", g, topicId, "notFound")>>
      ELSE IF hasText
      THEN IF resp = "ok"
           THEN <<edit>> \o notifyMessageEdited(g, topicId, msgId)
           ELSE IF resp = "can't be edited"
           THEN <<edit, Call("sendMessage", pmChatId, 0,
                             IF resendOk THEN "resent" ELSE "resendFailed")>>
                  \o (IF resendOk
                      THEN <<Call("sendMessage", g, topicId, "resentNotice")>>
                      ELSE <<>>)
           ELSE <<edit, Call("sendMessage", g, topicId, "editFailed")>>
      ELSE <<Call("sendMessage", g, topicId, "textOnly")>>

(* processOwnerMessageDelete without the return after a failed remote      *)
(* deletion.                                                               *)
processOwnerMessageDeleteNoReturn(metaData, links, topicId, originId, commandId, deleteOk, noticeId) ==
  LET g == metaData.superGroupChatId
      pmChatId == MapGet(metaData.topicToFromChat, topicId)
      found == findPmMessageId(links, originId)
      delete == CallOn("deleteMessage", pmChatId, 0, found.pmMessageId,
                       IF deleteOk THEN "ok" ELSE "failed")
  IN  IF ~Truthy(pmChatId)
      THEN <<Call("sendMessage", g, topicId, "noMapping")>>
      ELSE IF ~Truthy(found.pmMessageId)
      THEN <<Call("sendMessage", g, topicId, "notFound")>>
      ELSE (IF deleteOk THEN <<delete>>
            ELSE <<delete, Call("sendMessage", g, topicId, "deleteFailed")>>)
           \o <<CallOn("setMessageReaction", g, topicId, commandId, "deleted"),
                Call("sendMessage", g, topicId,
                     IF Truthy(noticeId) THEN "deletedNotice" ELSE "noticeFailed"),
                CallOn("deleteMessages", g, topicId,
                       SelectSeq(<<originId, commandId, noticeId>>, Truthy),
                       "cleanup")>>

(* processOwnerMessageDelete: the calls it issues for `#del' sent as       *)
(* message commandId in thread topicId in reply to message originId;       *)
(* noticeId is the id of the confirmation, 0 when sending it failed.       *)
processOwnerMessageDelete(metaData, links, topicId, originId, commandId, deleteOk, noticeId) ==
  LET g == metaData.superGroupChatId
      pmChatId == MapGet(metaData.topicToFromChat, topicId)
      found == findPmMessageId(links, originId)
      delete == CallOn("deleteMessage", pmChatId, 0, found.pmMessageId,
                       IF deleteOk THEN "ok" ELSE "failed")
  IN  IF ~Truthy(pmChatId)
      THEN <<Call("sendMessage", g, topicId, "noMapping")>>
      ELSE IF ~Truthy(found.pmMessageId)
      THEN <<Call("sendMessage", g, topicId, "notFound")>>
      ELSE IF ~deleteOk
      THEN <<delete, Call("sendMessage", g, topicId, "deleteFailed")>>
      ELSE <<delete,
             CallOn("setMessageReaction", g, topicId, commandId, "deleted"),
             Call("sendMessage", g, topicId,
                  IF Truthy(noticeId) THEN "deletedNotice" ELSE "noticeFailed"),
             CallOn("deleteMessages", g, topicId,
                    SelectSeq(<<originId, commandId, noticeId>>, Truthy),
                    "cleanup")>>

(* processUserMessageDelete: the calls it issues for `#del' sent as        *)
(* message commandId of chat fromChatId in reply to message originId.      *)
processUserMessageDelete(metaData, links, fromChatId, originId, commandId, deleteOk) ==
  LET g == metaData.superGroupChatId
      topicId == MapGet(metaData.fromChatToTopic, fromChatId)
      found == findTopicMessageId(links, originId)
      delete == CallOn("deleteMessage", g, 0, found.topicMessageId,
                       IF deleteOk THEN "ok" ELSE "failed")
  IN  IF ~Truthy(topicId)
      THEN <<Call("sendMessage", fromChatId, 0, "noTopic")>>
      ELSE IF ~Truthy(found.topicMessageId)
      THEN <<Call("sendMessage", fromChatId, 0, "notFound")>>
      ELSE IF deleteOk
      THEN <<delete,
             CallOn("setMessageReaction", fromChatId, 0, commandId, "deleted"),
             Call("sendMessage", fromChatId, 0, "deleted")>>
      ELSE <<delete, Call("sendMessage", fromChatId, 0, "deleteFailed")>>

Issued(calls, method) == \E i \in 1..Len(calls) : calls[i].method = method

Accepted(calls, method, tag) ==
  \E i \in 1..Len(calls) : calls[i].method = method /\ calls[i].tag = tag

(* The list of links an event of group g reads, none without a group. *)
LinksFor(g) == IF g \in Groups THEN LoadLinks(g, TRUE) ELSE <<>>

(* The messages of thread t of group g: those the operator wrote and the   *)
(* copies delivered into it.                                               *)
ThreadMessages(g, t) ==
  {a[3] : a \in {b \in authored : b[1] = g /\ b[2] = t}}
    \cup {l.topicMessageId : l \in {k \in Pairs(LinksFor(g)) : k.topicId = t}}

(* handleUpdate for an edited_message of user chat u, through              *)
(* processEditedMessage and processUserMessageEdit.                        *)
UserEdit(u, hasText) ==
  /\ Ready
  /\ \E a \in authored, resp \in EditResponses, copyOk \in BOOLEAN,
        metaData \in {parseMetadataText(loadMetadata)} :
     \E calls \in {IF loadMetadata = <<>> THEN <<>>
                   ELSE processUserMessageEdit(metaData,
                          LinksFor(metaData.superGroupChatId), u, a[3],
                          hasText, resp, copyOk)} :
       LET m == a[3]
           g == metaData.superGroupChatId
           copied == Accepted(calls, "copyMessage", "ok")
           e == [StartOf("uedit", u, g, m, 0, 0)
                   EXCEPT !.hasText = hasText, !.meta = metaData]
       IN  /\ a[1] = u
           /\ Issued(calls, "editMessageText") \/ resp = "ok"
           /\ Issued(calls, "copyMessage") \/ copyOk
           /\ copied => nextId[g] <= IdCap
           /\ nextId' = IF copied THEN [nextId EXCEPT ![g] = @ + 1] ELSE nextId
           /\ ev' = Done(e, calls)
  /\ nEvents' = nEvents + 1
  /\ UNCHANGED <<codecVars, apiVars, indexVars, raceVars, authored, calm, eventCap, kvEnabled, admins,
                 ownerPinned, groupPinned, kvTopics, kvLinks, topics, nextPm,
                 nFaults>>

(* handleUpdate for an edited_message of the owner in thread t of forum    *)
(* group g, through processEditedMessage.                                  *)
OwnerEdit(g, t, hasText) ==
  /\ Ready
  /\ \E a \in authored, resp \in EditResponses, ok \in BOOLEAN,
        metaData \in {[parseMetadataText(loadMetadata)
                         EXCEPT !.superGroupChatId =
                           IF Truthy(@) THEN @ ELSE g]} :
     \E calls \in {IF loadMetadata = <<>> THEN <<>>
                   ELSE IF g = metaData.superGroupChatId
                   THEN processOwnerMessageEdit(metaData, LinksFor(g), t,
                                                a[3], hasText, resp, ok)
                   ELSE processUserMessageEdit(metaData,
                          LinksFor(metaData.superGroupChatId), g, a[3],
                          hasText, resp, ok)} :
       LET m == a[3]
           bound == metaData.superGroupChatId
           pmChatId == MapGet(metaData.topicToFromChat, t)
           copied == Accepted(calls, "copyMessage", "ok")
           resent == Accepted(calls, "sendMessage", "resent")
           e == [StartOf("oedit", g, bound, m, 0, t)
                   EXCEPT !.hasText = hasText, !.meta = metaData]
       IN  /\ a[1] = g /\ a[2] = t
           /\ Issued(calls, "editMessageText") \/ resp = "ok"
           /\ Issued(calls, "copyMessage")
                \/ Accepted(calls, "editMessageText", "can't be edited") \/ ok
           /\ copied => nextId[bound] <= IdCap
           /\ resent => nextPm[pmChatId] <= MaxPm
           /\ nextId' = IF copied THEN [nextId EXCEPT ![bound] = @ + 1]
                        ELSE nextId
           /\ nextPm' = IF resent THEN [nextPm EXCEPT ![pmChatId] = @ + 1]
                        ELSE nextPm
           /\ ev' = Done(e, calls)
  /\ nEvents' = nEvents + 1
  /\ UNCHANGED <<codecVars, apiVars, indexVars, raceVars, authored, calm, eventCap, kvEnabled, admins,
                 ownerPinned, groupPinned, kvTopics, kvLinks, topics, nFaults>>

(* handleUpdate for `#del' sent by the owner in thread t of forum group g  *)
(* in reply to a message of the thread, through handleMessageDelete.       *)
OwnerDelete(g, t) ==
  /\ Ready
  /\ t \in topics[g]
  /\ nextId[g] <= IdCap
  /\ \E originId \in ThreadMessages(g, t),
        deleteOk, noticeOk, cleanupOk \in BOOLEAN,
        metaData \in {[parseMetadataText(loadMetadata)
                         EXCEPT !.superGroupChatId =
                           IF Truthy(@) THEN @ ELSE g]} :
     \E calls \in {IF g = metaData.superGroupChatId
                   THEN processOwnerMessageDelete(metaData, LinksFor(g),
                          t, originId, nextId[g], deleteOk,
                          IF noticeOk THEN nextId[g] + 1 ELSE 0)
                   ELSE processUserMessageDelete(metaData,
                          LinksFor(metaData.superGroupChatId), g, originId,
                          nextId[g], deleteOk)} :
       LET commandId == nextId[g]
           bound == metaData.superGroupChatId
           cleaned == Issued(calls, "deleteMessages") /\ cleanupOk
           noticed == Accepted(calls, "sendMessage", "deletedNotice")
           e == [StartOf("odelete", g, bound, commandId, originId, t)
                   EXCEPT !.meta = metaData]
       IN  /\ Issued(calls, "deleteMessage") \/ deleteOk
           /\ Issued(calls, "deleteMessages") \/ (noticeOk /\ cleanupOk)
           /\ nextId' = [nextId EXCEPT ![g] = @ + (IF noticed THEN 2 ELSE 1)]
           /\ authored' = IF cleaned THEN authored \ {<<g, t, originId>>}
                          ELSE authored
           /\ ev' = Done(e, calls)
  /\ nEvents' = nEvents + 1
  /\ UNCHANGED <<codecVars, apiVars, indexVars, raceVars, calm, eventCap, kvEnabled, admins, ownerPinned,
                 groupPinned, kvTopics, kvLinks, topics, nextPm, nFaults>>

(* handleUpdate for `#del' sent in user chat u in reply to a message of    *)
(* the chat, through handleMessageDelete and processUserMessageDelete.     *)
UserDelete(u) ==
  /\ Ready
  /\ nextPm[u] <= MaxPm
  /\ \E originId \in 1..(nextPm[u] - 1), deleteOk \in BOOLEAN,
        metaData \in {parseMetadataText(loadMetadata)} :
     \E calls \in {IF ~Truthy(metaData.superGroupChatId)
                   THEN <<Call("sendMessage", u, 0, "notInitialized")>>
                   ELSE processUserMessageDelete(metaData,
                          LinksFor(metaData.superGroupChatId), u, originId,
                          nextPm[u], deleteOk)} :
       LET commandId == nextPm[u]
           g == metaData.superGroupChatId
           e == [StartOf("udelete", u, g, commandId, originId, 0)
                   EXCEPT !.meta = metaData]
       IN  /\ Issued(calls, "deleteMessage") \/ deleteOk
           /\ ev' = Done(e, calls)
  /\ nextPm' = [nextPm EXCEPT ![u] = @ + 1]
  /\ nEvents' = nEvents + 1
  /\ UNCHANGED <<codecVars, apiVars, indexVars, raceVars, authored, calm, eventCap, kvEnabled,
                 admins, ownerPinned, groupPinned, kvTopics, kvLinks, topics,
                 nextId, nFaults>>

(***************************************************************************)
(* Reactions.                                                              *)
(***************************************************************************)
(* The owner's id.  handleRequest takes ownerUid from the webhook path, so *)
(* the handlers hold it as a string; the ids of an update are numbers.     *)
OwnerId == 9
JsNumber(n) == [type |-> "number", v |-> n]
JsString(str) == [type |-> "string", v |-> str]
ownerUid == JsString(ToStr(OwnerId))

(* a === b, and a.toString() === b.toString(). *)
StrictEquals(a, b) == a.type = b.type /\ a.v = b.v
ToStringOf(a) == IF a.type = "number" THEN ToStr(a.v) ELSE a.v
SameAsString(a, b) == ToStringOf(a) = ToStringOf(b)

(* The reaction lists an update may carry, and the gateway's answers.      *)
ReactionLists ==
  {<<>>, <<"like">>, <<"like", "fire">>, <<"fire", "like">>}
ReactionResponses == {"ok", "REACTIONS_TOO_MANY", "REACTION_INVALID", "failed"}

ReactionCall(chat, message, reaction, tag) ==
  [method |-> "setMessageReaction", chat |-> chat, thread |-> 0,
   message |-> message, reaction |-> reaction, tag |-> tag]

(* setMessageReaction retrying after every rejection. *)
setMessageReactionRetryAlways(chatId, messageId, reaction, resp, again) ==
  IF resp = "ok" THEN <<ReactionCall(chatId, messageId, reaction, resp)>>
  ELSE <<ReactionCall(chatId, messageId, reaction, resp),
         ReactionCall(chatId, messageId,
                      IF Len(reaction) > 0 THEN SliceTail(reaction, 1)
                      ELSE <<>>, again)>>

(* setMessageReaction of the reaction handler: the calls it issues when    *)
(* the gateway answers resp to the first and again to a second.            *)
setMessageReaction(chatId, messageId, reaction, resp, again) ==
  LET first == ReactionCall(chatId, messageId, reaction, resp)
      fallbackReaction == IF Len(reaction) > 0 THEN SliceTail(reaction, 1)
                          ELSE <<>>
  IN  IF resp = "ok" THEN <<first>>
      ELSE IF resp = "REACTIONS_TOO_MANY"
      THEN <<first, ReactionCall(chatId, messageId, fallbackReaction, again)>>
      ELSE <<first>>

processUserReaction(metaData, links, messageId, reaction, resp, again) ==
  LET found == findTopicMessageId(links, messageId)
  IN  IF ~Truthy(found.topicMessageId) \/ ~Truthy(found.topicId) THEN <<>>
      ELSE setMessageReaction(metaData.superGroupChatId, found.topicMessageId,
                              reaction, resp, again)

processOwnerReaction(metaData, links, topicId, messageId, reaction, resp, again) ==
  LET targetChatId == MapGet(metaData.topicToFromChat, topicId)
      found == findPmMessageId(links, messageId)
  IN  IF ~Truthy(topicId) THEN <<>>
      ELSE IF ~Truthy(targetChatId) THEN <<>>
      ELSE IF ~Truthy(found.pmMessageId) THEN <<>>
      ELSE setMessageReaction(targetChatId, found.pmMessageId, reaction, resp,
                              again)

(* processMessageReaction for a reaction of user fromUserId on message     *)
(* messageId of chat fromChatId.                                           *)
processMessageReaction(metaData, links, fromUserId, fromChatId, isForum, topicId, messageId, reaction, resp, again) ==
  IF /\ StrictEquals(JsNumber(fromUserId), ownerUid)
     /\ fromChatId = metaData.superGroupChatId
     /\ isForum
  THEN processOwnerReaction(metaData, links, topicId, messageId, reaction,
                            resp, again)
  ELSE IF ~Truthy(MapGet(metaData.fromChatToTopic, fromChatId)) THEN <<>>
  ELSE IF isTopicBanned(metaData,
                        MapGet(metaData.fromChatToTopic, fromChatId))
  THEN <<>>
  ELSE processUserReaction(metaData, links, messageId, reaction, resp, again)

(* The answers that matter to the calls issued. *)
AnswersUsed(calls, resp, again) ==
  /\ calls = <<>> => resp = "ok"
  /\ Len(calls) < 2 => again = "ok"

(* handleUpdate for a message_reaction of user u in the private chat.      *)
UserReaction(u) ==
  /\ Ready
  /\ \E m \in 1..(nextPm[u] - 1), reaction \in ReactionLists,
        resp, again \in ReactionResponses,
        metaData \in {parseMetadataText(loadMetadata)} :
     \E calls \in {IF loadMetadata = <<>> THEN <<>>
                   ELSE processMessageReaction(metaData,
                          LinksFor(metaData.superGroupChatId), u, u, FALSE,
                          0, m, reaction, resp, again)} :
       /\ AnswersUsed(calls, resp, again)
       /\ ev' = Done([StartOf("ureact", u, metaData.superGroupChatId, m, 0, 0)
                        EXCEPT !.reaction = reaction, !.meta = metaData],
                     calls)
  /\ nEvents' = nEvents + 1
  /\ UNCHANGED <<codecVars, apiVars, indexVars, raceVars, authored, calm, eventCap, kvEnabled,
                 admins, ownerPinned, groupPinned, kvTopics, kvLinks, topics,
                 nextId, nextPm, nFaults>>

(* handleUpdate for a message_reaction of the owner on a message of thread *)
(* t of forum group g; the update carries the message_thread_id or not.   *)
OwnerReaction(g, t, carried) ==
  /\ Ready
  /\ \E m \in ThreadMessages(g, t), reaction \in ReactionLists,
        topicId \in {IF carried THEN t ELSE 0},
        resp, again \in ReactionResponses,
        metaData \in {[parseMetadataText(loadMetadata)
                         EXCEPT !.superGroupChatId =
                           IF Truthy(@) THEN @ ELSE g]} :
     \E calls \in {IF loadMetadata = <<>> THEN <<>>
                   ELSE processMessageReaction(metaData,
                          LinksFor(metaData.superGroupChatId), OwnerId, g,
                          TRUE, topicId, m, reaction, resp, again)} :
       /\ AnswersUsed(calls, resp, again)
       /\ ev' = Done([StartOf("oreact", g, metaData.superGroupChatId, m, 0, t)
                        EXCEPT !.reaction = reaction, !.meta = metaData,
                               !.target = topicId],
                     calls)
  /\ nEvents' = nEvents + 1
  /\ UNCHANGED <<codecVars, apiVars, indexVars, raceVars, authored, calm, eventCap, kvEnabled,
                 admins, ownerPinned, groupPinned, kvTopics, kvLinks, topics,
                 nextId, nextPm, nFaults>>

(* The handlers of two updates delivered at the same time run as two      *)
(* invocations; a worker is one invocation.                                *)
Workers == {1, 2}

IdleWorker ==
  [pc |-> "idle", kind |-> "none", id |-> 0, chat |-> 0, thread |-> 0,
   msgId |-> 0, replyTo |-> 0, target |-> 0, solo |-> TRUE,
   loaded |-> EmptyMeta, data |-> EmptyMeta, note |-> "none"]

RaceIdle ==
  /\ rw = [w \in Workers |-> IdleWorker]
  /\ rsaves = <<>>

(* No gateway call made yet. *)
NoApiCall ==
  [pc |-> "idle", n |-> 0, method |-> "none", ownerUid |-> <<>>,
   requests |-> <<>>, data |-> [ok |-> TRUE, description |-> "none"]]

ApiIdle == api = NoApiCall

CodecIdle ==
  /\ ci = 0 /\ cdata = EmptyMeta /\ cout = <<>> /\ cdec = EmptyMeta

NoOp == [op |-> "none", thread |-> 0, before |-> <<>>, link |-> NoLink]

IndexIdle ==
  /\ xi = 0 /\ xgone = {} /\ xlast = NoOp

Fresh ==
  /\ ownerPinned = <<>>
  /\ groupPinned = [g \in Groups |-> <<>>]
  /\ kvTopics = [g \in Groups |-> <<>>]
  /\ kvLinks = [g \in Groups |-> <<>>]
  /\ topics = [g \in Groups |-> {}]
  /\ nextId = [g \in Groups |-> 1]
  /\ nextPm = [u \in Users |-> 1]
  /\ ev = NoEvent
  /\ nEvents = 0
  /\ nFaults = 0
  /\ authored = {}

EngineInit ==
  /\ calm = FALSE
  /\ eventCap = MaxEvents
  /\ kvEnabled \in BOOLEAN
  /\ admins = Admins
  /\ Fresh

Init == EngineInit /\ CodecIdle /\ IndexIdle /\ RaceIdle /\ ApiIdle

Next ==
  \/ \E g \in Groups : InitCmd(g)
  \/ \E g \in Groups : ResetCmd(g)
  \/ \E g \in Groups, t \in 1..MaxId, banned, silent \in BOOLEAN :
       BanCmd(g, t, banned, silent)
  \/ \E u \in Users, replyTo \in 0..MaxPm : PrivateStart(u, replyTo, PlainText)
  \/ FwdEnsure
  \/ FwdCopy
  \/ \E g \in Groups, t \in 1..MaxId, replyTo \in 0..MaxId :
       TopicStart(g, t, replyTo)
  \/ TopicCopy


Spec == Init /\ [][Next]_vars

(* The engine in front of a gateway that accepts every call, with the      *)
(* key-value store bound and no administrators among the users.            *)
CalmGroup == Max(Groups)

CalmInit ==
  /\ calm = TRUE
  /\ eventCap = MaxCalmEvents
  /\ kvEnabled = TRUE
  /\ admins = {}
  /\ Fresh
  /\ CodecIdle /\ IndexIdle /\ RaceIdle /\ ApiIdle

CalmNext ==
  \/ InitCmd(CalmGroup)
  \/ \E t \in 1..MaxCalmId, banned \in BOOLEAN :
       BanCmd(CalmGroup, t, banned, TRUE)
  \/ \E u \in Users, replyTo \in 0..MaxPm : PrivateStart(u, replyTo, PlainText)
  \/ FwdEnsure
  \/ FwdCopy

SpecCalm == CalmInit /\ [][CalmNext]_vars

(* The engine with edits and deletions, in front of a gateway that        *)
(* accepts every creation, copy and save.                                  *)
OpsInit ==
  /\ calm = TRUE
  /\ eventCap = MaxOpsEvents
  /\ kvEnabled \in BOOLEAN
  /\ admins = {}
  /\ Fresh
  /\ CodecIdle /\ IndexIdle /\ RaceIdle /\ ApiIdle

OpsNext ==
  \/ InitCmd(CalmGroup)
  \/ \E t \in 1..MaxCalmId, banned \in BOOLEAN :
       BanCmd(CalmGroup, t, banned, TRUE)
  \/ \E u \in Users, replyTo \in 0..MaxPm, message \in PrivateTexts :
       PrivateStart(u, replyTo, message)
  \/ FwdEnsure
  \/ FwdCopy
  \/ \E t \in 1..MaxCalmId, replyTo \in 0..MaxCalmId :
       TopicStart(CalmGroup, t, replyTo)
  \/ TopicCopy
  \/ \E u \in Users, hasText \in BOOLEAN : UserEdit(u, hasText)
  \/ \E t \in 1..MaxCalmId, hasText \in BOOLEAN :
       OwnerEdit(CalmGroup, t, hasText)
  \/ \E t \in 1..MaxCalmId : OwnerDelete(CalmGroup, t)
  \/ \E u \in Users : UserDelete(u)
  \/ \E u \in Users : UserReaction(u)
  \/ \E t \in 1..MaxCalmId, carried \in BOOLEAN :
       OwnerReaction(CalmGroup, t, carried)

SpecOps == OpsInit /\ [][OpsNext]_vars

(***************************************************************************)
(* Block and unblock commands of every sender: a member of the group       *)
(* sends a command text inside a thread, and the update runs through       *)
(* handleBanCommands and, where that declines it, handleTopicMessage with  *)
(* handleTopicCommands.                                                    *)
(***************************************************************************)
MaxBanEvents == 5

(* The owner and another member of the group. *)
Senders == {OwnerId, 8}

BanText == <<"/", "b", "a", "n">>
UnbanText == <<"/", "u", "n", "b", "a", "n">>
SilentBanText == <<"/", "s", "i", "l", "e", "n", "t", "_", "b", "a", "n">>
SilentUnbanText == <<"/", "s", "i", "l", "e", "n", "t", "_", "u", "n", "b", "a", "n">>
CommandTexts ==
  {BanText, UnbanText, SilentBanText, SilentUnbanText,
   BanText \o <<" ", "x">>, UnbanText \o <<" ", "x">>}

(* handleBanCommands: the table of the exact command texts. *)
commandConfig ==
  <<<<BanText, [action |-> "ban", silent |-> FALSE]>>,
    <<SilentBanText, [action |-> "ban", silent |-> TRUE]>>,
    <<UnbanText, [action |-> "unban", silent |-> FALSE]>>,
    <<SilentUnbanText, [action |-> "unban", silent |-> TRUE]>>>>

(* message.text.split(' ')[0] *)
RECURSIVE FirstWord(_)
FirstWord(text) ==
  IF text = <<>> \/ text[1] = " " THEN <<>>
  ELSE <<text[1]>> \o FirstWord(Tail(text))

(* changeBanStatus: what the call does for the thread, `change' standing   *)
(* for markBan, updateMapping and the notice.                              *)
changeBanStatus(metaData, topicId, banned) ==
  IF isTopicBanned(metaData, topicId) = banned THEN "repeated"
  ELSE IF ~MapHas(metaData.topicToFromChat, topicId) THEN "noMapping"
  ELSE "change"

(* A text message `text' of member `from' in thread t of group g, from     *)
(* handleBanCommands to handleTopicCommands.                               *)
ThreadCommand(g, t, text, from) ==
  /\ Ready
  /\ t \in topics[g]
  /\ MapHas(commandConfig, text) \/ FirstWord(text) \in {BanText, UnbanText}
  /\ \E kvOk \in Outcomes(kvEnabled), editOk \in Outcomes(TRUE) :
       LET loaded == loadMetadata
           parsed == parseMetadataText(loaded)
           metaData == [parsed EXCEPT !.superGroupChatId =
                          IF Truthy(@) THEN @ ELSE g]
           fromChatId == MapGet(metaData.topicToFromChat, t)
           exact == MapHas(commandConfig, text)
           config == commandConfig[CHOOSE i \in 1..Len(commandConfig) :
                                     commandConfig[i][1] = text][2]
           command == FirstWord(text)
           banned == IF exact THEN config.action = "ban"
                     ELSE command = BanText
           e == [StartOf(IF banned THEN "ban" ELSE "unban", g, g, 0, 0, t)
                   EXCEPT !.from = from, !.text = text,
                          !.seen = [NothingSeen EXCEPT
                                      !.blocked = metaData.bannedTopics]]
           quiet(calls) ==
             /\ kvOk /\ editOk
             /\ ev' = Done(e, calls)
             /\ UNCHANGED <<ownerPinned, kvTopics, nFaults>>
           say(tag) == quiet(<<Call("sendMessage", g, t, tag)>>)
           marked == markBan(metaData, t, banned)
           r == updateMapping(marked, kvOk, editOk)
           change(calls) ==
             /\ (~kvEnabled => kvOk)
             /\ nFaults + Cost(kvOk) + Cost(editOk) <= MaxFaults
             /\ nFaults' = nFaults + Cost(kvOk) + Cost(editOk)
             /\ kvTopics' = r.kvTopics
             /\ ownerPinned' = r.ownerPinned
             /\ ev' = Done([e EXCEPT !.meta = r.data, !.edits = r.edits],
                           calls)
           notice == IF config.silent \/ ~Truthy(fromChatId) THEN <<>>
                     ELSE <<Call("sendMessage", fromChatId, 0,
                                 IF banned THEN "youAreBanned"
                                 ELSE "youAreUnbanned")>>
       IN  IF exact
           THEN \* handleBanCommands with banTopic / unbanTopic
                IF ToStr(from) # ownerUid.v THEN say("ownerOnly")
                ELSE IF loaded = <<>> THEN say("noMetadata")
                ELSE IF metaData.superGroupChatId # g THEN say("wrongGroup")
                ELSE IF banned /\ ~Truthy(fromChatId) THEN say("noMapping")
                ELSE IF banned /\ isTopicBanned(metaData, t)
                THEN say("alreadyBanned")
                ELSE IF ~banned /\ ~isTopicBanned(metaData, t)
                THEN say("notBanned")
                ELSE change(<<Call("sendMessage", g, t,
                                   IF banned THEN "banned" ELSE "unbanned")>>
                            \o notice)
           ELSE \* handleTopicCommands with changeBanStatus
                IF ownerPinned = <<>> THEN quiet(<<>>)
                ELSE IF changeBanStatus(metaData, t, banned) = "change"
                THEN change(<<Call("sendMessage", metaData.superGroupChatId,
                                   t, IF banned THEN "banned"
                                      ELSE "unbanned")>>)
                ELSE quiet(<<Call("sendMessage", metaData.superGroupChatId, t,
                                  changeBanStatus(metaData, t, banned))>>)
  /\ nEvents' = nEvents + 1
  /\ UNCHANGED <<codecVars, apiVars, indexVars, raceVars, authored, calm, eventCap, kvEnabled, admins, groupPinned, kvLinks, topics, nextId,
                 nextPm>>

BanInit ==
  /\ calm = TRUE
  /\ eventCap = MaxBanEvents
  /\ kvEnabled \in BOOLEAN
  /\ admins = {}
  /\ Fresh
  /\ CodecIdle /\ IndexIdle /\ RaceIdle /\ ApiIdle

BanNext ==
  \/ InitCmd(CalmGroup)
  \/ \E u \in Users : PrivateStart(u, 0, PlainText)
  \/ FwdEnsure
  \/ FwdCopy
  \/ \E t \in 1..MaxCalmId, text \in CommandTexts, from \in Senders :
       ThreadCommand(CalmGroup, t, text, from)

SpecBan == BanInit /\ [][BanNext]_vars

(***************************************************************************)
(* callTelegramApi on its own: the request, the diagnostic sent to the     *)
(* owner for a failed call, and the value returned.  Each place where the  *)
(* code can raise an exception is an answer of the step it belongs to, and *)
(* the step goes where the enclosing try statement sends it.               *)
(***************************************************************************)
MaxApiCalls == 2

ApiMethods == {"sendMessage", "copyMessage", "editMessageText", "createForumTopic"}
(* options.ownerUid: <<>> stands for a missing or empty id. *)
ApiOwners == {<<>>, ownerUid.v}

(* What the request can come to: data.ok, data with ok false and with or   *)
(* without a description, fetch rejecting, resp.json() rejecting, and a    *)
(* body that parses to null, so that reading data.ok raises a TypeError.   *)
ApiAnswers == {"ok", "failed", "undescribed", "transport", "parse", "null"}
ApiExceptions == {"transport", "parse", "null"}
(* The diagnostic's response is not read: only fetch rejecting matters. *)
ReportAnswers == {"ok", "failed", "transport"}

(* The diagnostic sent whatever the method. *)
shouldReportAnyMethod(owner, method) == owner # <<>>

(* ownerUid && method !== 'sendMessage' *)
shouldReport(owner, method) == owner # <<>> /\ method # "sendMessage"

(* The value callTelegramApi returns: data as parsed, or for an exception  *)
(* { ok: false, description: err.message || String(err) }.                 *)
ApiData(answer) ==
  IF answer = "ok" THEN [ok |-> TRUE, description |-> "none"]
  ELSE IF answer = "failed" THEN [ok |-> FALSE, description |-> "answer"]
  ELSE IF answer = "undescribed" THEN [ok |-> FALSE, description |-> "none"]
  ELSE [ok |-> FALSE, description |-> "error"]

ApiRequestOf(method, to, answer) ==
  [method |-> method, to |-> to, answer |-> answer]

(* callTelegramApi is entered. *)
ApiCall(method, owner) ==
  /\ api.pc \in {"idle", "returned"}
  /\ api.n < MaxApiCalls
  /\ api' = [NoApiCall EXCEPT !.pc = "post", !.n = api.n + 1,
                              !.method = method, !.ownerUid = owner]
  /\ UNCHANGED <<engineVars, codecVars, indexVars, raceVars>>

(* postToTelegramApi and resp.json() of the call itself, up to the return  *)
(* or to the diagnostic of either branch.                                  *)
ApiPost(answer) ==
  /\ api.pc = "post"
  /\ api' = [api EXCEPT
               !.requests = Append(@, ApiRequestOf(api.method, "target", answer)),
               !.data = ApiData(answer),
               !.pc = IF answer # "ok" /\ shouldReport(api.ownerUid, api.method)
                      THEN "report" ELSE "returned"]
  /\ UNCHANGED <<engineVars, codecVars, indexVars, raceVars>>

(* The diagnostic: postToTelegramApi inside its own try statement, whose   *)
(* catch only logs; the function then returns.                             *)
ApiReport(answer) ==
  /\ api.pc = "report"
  /\ api' = [api EXCEPT
               !.requests = Append(@, ApiRequestOf("sendMessage", "owner", answer)),
               !.pc = "returned"]
  /\ UNCHANGED <<engineVars, codecVars, indexVars, raceVars>>

ApiInit ==
  /\ calm = TRUE
  /\ eventCap = 0
  /\ kvEnabled = TRUE
  /\ admins = {}
  /\ Fresh
  /\ CodecIdle /\ IndexIdle /\ RaceIdle /\ ApiIdle

ApiNext ==
  \/ \E method \in ApiMethods, owner \in ApiOwners : ApiCall(method, owner)
  \/ \E answer \in ApiAnswers : ApiPost(answer)
  \/ \E answer \in ReportAnswers : ApiReport(answer)

SpecApi == ApiInit /\ [][ApiNext]_vars

(***************************************************************************)
(* The metadata codec on its own: a mapping structure is encoded by        *)
(* trimMetadataEntries and the text is decoded by parseMetadataText.       *)
(***************************************************************************)
Entry(t, u, b, label) == [t |-> t, u |-> u, b |-> b, label |-> label]

(* The structure left by upsertMapping(t, u, label) for each entry in      *)
(* order, followed by markBan(t, TRUE) for the blocked ones.               *)
MetaOf(g, es) ==
  LET labelled == SelectSeq(es, LAMBDA e : e.label # <<>>)
      blocked == SelectSeq(es, LAMBDA e : e.b)
  IN  [superGroupChatId |-> g,
       topicToFromChat |-> [i \in 1..Len(es) |-> <<es[i].t, es[i].u>>],
       fromChatToTopic |-> [i \in 1..Len(es) |-> <<es[i].u, es[i].t>>],
       bannedTopics |-> [i \in 1..Len(blocked) |-> blocked[i].t],
       topicToComment |->
         [i \in 1..Len(labelled) |-> <<labelled[i].t, labelled[i].label>>],
       fromChatToComment |->
         [i \in 1..Len(labelled) |-> <<labelled[i].u, labelled[i].label>>]]

MaxSmall == 3
SmallThreads == 1..MaxSmall
SmallUser(t) == IF t = 1 THEN 5 ELSE IF t = 2 THEN 66 ELSE 0 - (700 + t)
SmallLabels == {<<>>, <<"a", "b">>, <<"a", ":", "b", ";">>, <<":">>}

(* Sequences of distinct threads, in every insertion order. *)
ThreadOrders ==
  {q \in UNION {[1..n -> SmallThreads] : n \in 0..MaxSmall} :
     \A i, j \in 1..Len(q) : i # j => q[i] # q[j]}

SmallInputs ==
  {MetaOf(g, [i \in 1..Len(q) |->
                Entry(q[i], SmallUser(q[i]), q[i] \in B,
                      IF i = 1 THEN l ELSE <<>>)]) :
     g \in Groups, q \in ThreadOrders, B \in SUBSET SmallThreads,
     l \in SmallLabels}

LabelLen == 120
MaxExtra == 3
LongLabel(n) == [i \in 1..n |-> "x"]

(* n bindings with long labels, every third one blocked; 31 of them encode *)
(* into 4035 characters with the group id -1001.                           *)
LabelledEntries(n) ==
  [i \in 1..n |-> Entry(100 + i, 5000 + i, i % 3 = 0, LongLabel(LabelLen - (IF i % 3 = 0 THEN 1 ELSE 0)))]

FullCount == (MAX_TEXT_LENGTH - 5) \div (LabelLen + 10)

(* FullCount labelled bindings and one more whose label makes the naive    *)
(* encoding d characters longer than the limit (shorter when d <= 0).      *)
EdgeInput(d) ==
  LET base == LabelledEntries(FullCount)
      used == 5 + FullCount * (LabelLen + 10)
      room == MAX_TEXT_LENGTH - used - 10
  IN  MetaOf(-1001, Append(base, Entry(900, 9000, FALSE, LongLabel(room + d))))

PlainCount == 315

(* n bindings without labels, every seventh one blocked. *)
PlainEntries(n) ==
  [i \in 1..n |-> Entry(1000 + i, 5550000 + i, i % 7 = 0, <<>>)]

LargeInputs ==
  {MetaOf(-1001, LabelledEntries(FullCount + k)) : k \in 0..MaxExtra}
    \cup {EdgeInput(d) : d \in (0 - 1)..MaxExtra}
    \cup {MetaOf(-1002, PlainEntries(PlainCount + k)) : k \in {0, 1}}

CodecInputs == SmallInputs \cup LargeInputs

NaiveLength(data) == Len(stringifyData(data))

CodecInit ==
  /\ calm = FALSE /\ eventCap = 0 /\ kvEnabled = FALSE /\ admins = {} /\ Fresh
  /\ IndexIdle /\ RaceIdle /\ ApiIdle
  /\ ci = 1
  /\ cdata \in CodecInputs
  /\ cout = <<>>
  /\ cdec = EmptyMeta

(* updateMapping's call of trimMetadataEntries. *)
Encode ==
  /\ ci = 1
  /\ cout' = trimMetadataEntries(cdata).text
  /\ ci' = 2
  /\ UNCHANGED <<cdata, cdec, engineVars, indexVars, apiVars, raceVars>>

(* parseMetaDataMessage on the stored text. *)
Decode ==
  /\ ci = 2
  /\ cdec' = parseMetadataText(cout)
  /\ ci' = 3
  /\ UNCHANGED <<cdata, cout, engineVars, indexVars, apiVars, raceVars>>

CodecNext == Encode \/ Decode

SpecCodec == CodecInit /\ [][CodecNext]_vars

(***************************************************************************)
(* The key-value message index on its own: appends and purges on a list    *)
(* that earlier relays have filled.                                        *)
(***************************************************************************)
MaxIndexSteps == 2
IndexGroup == Max(Groups)
IndexThreads == {1, 2}

(* The list after n relays, alternating between two threads whose user     *)
(* chats number their messages independently.                              *)
LinksOf(n) == [i \in 1..n |-> Link(1 + (i % 2), i, (i + 1) \div 2)]

IndexLists ==
  {LinksOf(n) : n \in {0, 1, MAX_KV_MAPPINGS - 1, MAX_KV_MAPPINGS}}

IndexInit ==
  /\ calm = FALSE /\ eventCap = 0 /\ kvEnabled = TRUE /\ admins = {}
  /\ ownerPinned = <<>>
  /\ groupPinned = [g \in Groups |-> <<>>]
  /\ kvTopics = [g \in Groups |-> <<>>]
  /\ \E l \in IndexLists :
       kvLinks = [g \in Groups |-> IF g = IndexGroup THEN l ELSE <<>>]
  /\ topics = [g \in Groups |-> {}]
  /\ nextId = [g \in Groups |-> 1]
  /\ nextPm = [u \in Users |-> 1]
  /\ ev = NoEvent
  /\ nEvents = 0
  /\ nFaults = 0
  /\ authored = {}
  /\ CodecIdle /\ RaceIdle /\ ApiIdle
  /\ IndexIdle

(* addMessageMapping with the store bound: addMessageMappingKV. *)
IndexAppend(t) ==
  /\ xi < MaxIndexSteps
  /\ \E getOk, putOk \in Outcomes(TRUE) :
       LET before == kvLinks[IndexGroup]
           fresh == MAX_KV_MAPPINGS + 1 + xi
           after == addMessageMapping(IndexGroup, t, fresh, fresh,
                                      getOk, putOk).kvLinks
       IN  /\ nFaults + Cost(getOk) + Cost(putOk) <= MaxFaults
           /\ nFaults' = nFaults + Cost(getOk) + Cost(putOk)
           /\ kvLinks' = after
           /\ xgone' = xgone \cup (Pairs(before) \ Pairs(after[IndexGroup]))
           /\ xlast' = [op |-> "append", thread |-> t, before |-> before,
                        link |-> Link(t, fresh, fresh)]
  /\ xi' = xi + 1
  /\ UNCHANGED <<codecVars, apiVars, raceVars, authored, calm, eventCap, kvEnabled, admins, ownerPinned, groupPinned, kvTopics,
                 topics, nextId, nextPm, ev, nEvents>>

(* cleanupTopicMessages with the store bound. *)
IndexPurge(t) ==
  /\ xi < MaxIndexSteps
  /\ \E getOk, putOk \in Outcomes(TRUE) :
       /\ nFaults + Cost(getOk) + Cost(putOk) <= MaxFaults
       /\ nFaults' = nFaults + Cost(getOk) + Cost(putOk)
       /\ kvLinks' = cleanupTopicMessages(IndexGroup, t, getOk, putOk)
  /\ xlast' = [op |-> "purge", thread |-> t,
               before |-> kvLinks[IndexGroup], link |-> NoLink]
  /\ xi' = xi + 1
  /\ UNCHANGED <<codecVars, apiVars, raceVars, authored, calm, eventCap, kvEnabled, admins, ownerPinned, groupPinned, kvTopics,
                 topics, nextId, nextPm, ev, nEvents, xgone>>

IndexNext ==
  \/ \E t \in IndexThreads : IndexAppend(t)
  \/ \E t \in IndexThreads : IndexPurge(t)

SpecIndex == IndexInit /\ [][IndexNext]_vars

(***************************************************************************)
(* The two lookups of the message index on lists built by appends, in the  *)
(* key-value list or in the group's pinned text.  Message ids repeat: the  *)
(* user chats number their messages independently.                         *)
(***************************************************************************)
MaxFindSteps == 3
FindIds == {1, 2}

FindInit ==
  /\ calm = TRUE /\ eventCap = 0 /\ kvEnabled \in BOOLEAN /\ admins = {}
  /\ Fresh
  /\ CodecIdle /\ RaceIdle /\ ApiIdle /\ IndexIdle

(* addMessageMapping of a link of thread t. *)
FindAppend(t, topicMessageId, pmMessageId) ==
  /\ xi < MaxFindSteps
  /\ \E added \in {addMessageMapping(IndexGroup, t, topicMessageId,
                                      pmMessageId, TRUE, TRUE)} :
       /\ kvLinks' = added.kvLinks
       /\ groupPinned' = added.groupPinned
  /\ xlast' = [op |-> "append", thread |-> t, key |-> 0,
               before |-> LoadLinks(IndexGroup, TRUE),
               link |-> Link(t, topicMessageId, pmMessageId)]
  /\ xi' = xi + 1
  /\ UNCHANGED <<codecVars, apiVars, raceVars, authored, calm, eventCap, kvEnabled,
                 admins, ownerPinned, kvTopics, topics, nextId, nextPm, ev,
                 nEvents, nFaults, xgone>>

(* findTopicMessageId for a message id of a user chat. *)
FindByUserMessage(pmMessageId) ==
  /\ xlast' = [op |-> "findTopicMessageId", thread |-> 0, key |-> pmMessageId,
               before |-> LoadLinks(IndexGroup, TRUE),
               link |-> findTopicMessageId(LoadLinks(IndexGroup, TRUE),
                                           pmMessageId)]
  /\ UNCHANGED <<codecVars, apiVars, raceVars, engineVars, xi, xgone>>

(* findPmMessageId for a message id of the group. *)
FindByThreadMessage(topicMessageId) ==
  /\ xlast' = [op |-> "findPmMessageId", thread |-> 0, key |-> topicMessageId,
               before |-> LoadLinks(IndexGroup, TRUE),
               link |-> findPmMessageId(LoadLinks(IndexGroup, TRUE),
                                        topicMessageId)]
  /\ UNCHANGED <<codecVars, apiVars, raceVars, engineVars, xi, xgone>>

(* cleanupTopicMessages for thread t; it leaves the pinned texts and the   *)
(* mapping store alone.                                                    *)
FindPurge(t) ==
  /\ kvLinks' = cleanupTopicMessages(IndexGroup, t, TRUE, TRUE)
  /\ xlast' = [op |-> "purge", thread |-> t, key |-> 0,
               before |-> LoadLinks(IndexGroup, TRUE), link |-> NoLink]
  /\ UNCHANGED <<codecVars, apiVars, raceVars, authored, calm, eventCap, kvEnabled,
                 admins, ownerPinned, groupPinned, kvTopics, topics, nextId,
                 nextPm, ev, nEvents, nFaults, xi, xgone>>

FindNext ==
  \/ \E t \in IndexThreads, topicMessageId, pmMessageId \in FindIds :
       FindAppend(t, topicMessageId, pmMessageId)
  \/ \E t \in IndexThreads : FindPurge(t)
  \/ \E pmMessageId \in FindIds : FindByUserMessage(pmMessageId)
  \/ \E topicMessageId \in FindIds : FindByThreadMessage(topicMessageId)

SpecFind == FindInit /\ [][FindNext]_vars

(***************************************************************************)
(* Two updates handled at the same time.  Each worker runs one handler at  *)
(* a time and gives way to the other at every remote call that reads or    *)
(* writes the mapping store: the load, the creation of the thread, the put *)
(* of the key-value copy and the edit of the pinned record.  The group is  *)
(* initialised and the gateway accepts every call.                         *)
(***************************************************************************)
MaxRaceEvents == 3

RaceGroup == CalmGroup

(* The structure `/init' saved for the group. *)
RaceBase ==
  [parseMetadataText(ToStr(RaceGroup)) EXCEPT !.superGroupChatId = RaceGroup]

RaceInit ==
  /\ calm = TRUE
  /\ eventCap = MaxRaceEvents
  /\ kvEnabled \in BOOLEAN
  /\ admins = {}
  /\ ownerPinned = <<trimMetadataEntries(RaceBase).text>>
  /\ groupPinned = [g \in Groups |-> <<>>]
  /\ kvTopics = [g \in Groups |->
                   IF kvEnabled /\ g = RaceGroup THEN <<RaceBase>> ELSE <<>>]
  /\ kvLinks = [g \in Groups |-> <<>>]
  /\ topics = [g \in Groups |-> {}]
  /\ nextId = [g \in Groups |-> 1]
  /\ nextPm = [u \in Users |-> 1]
  /\ ev = NoEvent
  /\ nEvents = 0
  /\ nFaults = 0
  /\ authored = {}
  /\ CodecIdle /\ IndexIdle /\ RaceIdle /\ ApiIdle

WorkerFree(w) ==
  /\ rw[w].pc \in {"idle", "done"}
  /\ nEvents < eventCap

Save(w, copy) ==
  [by |-> rw[w].id, copy |-> copy, data |-> rw[w].data,
   loaded |-> rw[w].loaded]

(* Worker w takes an update and starts event e.  The event is marked as    *)
(* handled alone while no other event is in progress between its start and *)
(* its end.                                                                *)
Taking(w, e) ==
  [v \in Workers |->
     IF v = w
     THEN [e EXCEPT !.solo = \A x \in Workers \ {w} :
                                rw[x].pc \in {"idle", "done"}]
     ELSE IF rw[v].pc \in {"idle", "done"} THEN rw[v]
     ELSE [rw[v] EXCEPT !.solo = FALSE]]

(* handlePrivateChat and forwardPrivateToTopic up to the first call of     *)
(* ensureTopic: the load of the record and the decisions taken on it.      *)
RacePrivate(w, u, replyTo) ==
  /\ WorkerFree(w)
  /\ nextPm[u] <= MaxPm
  /\ replyTo \in 0..(nextPm[u] - 1)
  /\ LET text == loadMetadata
         metaData == parseMetadataText(text)
         existingTopicId == MapGet(metaData.fromChatToTopic, u)
         e == [IdleWorker EXCEPT !.kind = "private", !.id = nEvents + 1,
                                 !.chat = u, !.msgId = nextPm[u],
                                 !.replyTo = replyTo,
                                 !.loaded = metaData, !.data = metaData]
     IN  rw' = Taking(w,
                  IF text = <<>> \/ ~Truthy(metaData.superGroupChatId)
                  THEN [e EXCEPT !.pc = "done", !.note = "notInitialized"]
                  ELSE IF Truthy(existingTopicId)
                          /\ isTopicBanned(metaData, existingTopicId)
                  THEN [e EXCEPT !.pc = "done", !.note = "blocked"]
                  ELSE IF Truthy(existingTopicId)
                  THEN [e EXCEPT !.pc = "copy", !.thread = existingTopicId]
                  ELSE [e EXCEPT !.pc = "create"])
  /\ nextPm' = [nextPm EXCEPT ![u] = @ + 1]
  /\ nEvents' = nEvents + 1
  /\ authored' = authored \cup {<<u, 0, nextPm[u]>>}
  /\ UNCHANGED <<codecVars, apiVars, indexVars, rsaves, calm, eventCap, kvEnabled,
                 admins, ownerPinned, groupPinned, kvTopics, kvLinks, topics,
                 nextId, ev, nFaults>>

(* ensureTopic: createForumTopic and upsertMapping on the structure the    *)
(* handler loaded.                                                         *)
RaceCreate(w) ==
  /\ rw[w].pc = "create"
  /\ LET g == rw[w].data.superGroupChatId
         newTopicId == nextId[g]
     IN  /\ newTopicId <= IdCap
         /\ topics' = [topics EXCEPT ![g] = @ \cup {newTopicId}]
         /\ nextId' = [nextId EXCEPT ![g] = @ + 1]
         /\ rw' = [rw EXCEPT
                     ![w].pc = IF kvEnabled THEN "put" ELSE "edit",
                     ![w].thread = newTopicId,
                     ![w].data = upsertMapping(@, newTopicId, rw[w].chat, <<>>)]
  /\ UNCHANGED <<codecVars, apiVars, indexVars, rsaves, calm, eventCap, kvEnabled,
                 admins, ownerPinned, groupPinned, kvTopics, kvLinks, nextPm,
                 ev, nEvents, nFaults, authored>>

(* updateMapping, first half: saveTopicMappingToKV. *)
RacePut(w) ==
  /\ rw[w].pc = "put"
  /\ kvTopics' = updateMapping(rw[w].data, TRUE, TRUE).kvTopics
  /\ rsaves' = Append(rsaves, Save(w, "kv"))
  /\ rw' = [rw EXCEPT ![w].pc = "edit"]
  /\ UNCHANGED <<codecVars, apiVars, indexVars, calm, eventCap, kvEnabled, admins,
                 ownerPinned, groupPinned, kvLinks, topics, nextId, nextPm,
                 ev, nEvents, nFaults, authored>>

(* updateMapping, second half: trimMetadataEntries and editMetadata; a     *)
(* block or unblock command then ends with its notices.                    *)
RaceEdit(w) ==
  /\ rw[w].pc = "edit"
  /\ \E r \in {updateMapping(rw[w].data, TRUE, TRUE)} :
       /\ ownerPinned' = r.ownerPinned
       /\ rsaves' = Append(rsaves, Save(w, "text"))
       /\ rw' = [rw EXCEPT
                   ![w].data = r.data,
                   ![w].pc = IF rw[w].kind = "private" THEN "copy" ELSE "done",
                   ![w].note = IF rw[w].kind = "private" THEN @
                               ELSE IF rw[w].kind = "ban" THEN "banned"
                               ELSE "unbanned"]
  /\ UNCHANGED <<codecVars, apiVars, indexVars, calm, eventCap, kvEnabled, admins,
                 groupPinned, kvTopics, kvLinks, topics, nextId, nextPm, ev,
                 nEvents, nFaults, authored>>

(* forwardPrivateToTopic after ensureTopic: the reply lookup, copyMessage, *)
(* addMessageMapping and the delivered marker.                             *)
RaceCopy(w) ==
  /\ rw[w].pc = "copy"
  /\ LET g == rw[w].data.superGroupChatId
         found == IF Truthy(rw[w].replyTo)
                  THEN findTopicMessageId(LoadLinks(g, TRUE), rw[w].replyTo)
                  ELSE NoLink
         targetTopicId == targetTopicIdOf(found, rw[w].thread)
         topicMessageId == nextId[g]
     IN  /\ topicMessageId <= IdCap
         /\ \E added \in {addMessageMapping(g, targetTopicId, topicMessageId,
                                             rw[w].msgId, TRUE, TRUE)} :
              /\ kvLinks' = added.kvLinks
              /\ groupPinned' = added.groupPinned
         /\ nextId' = [nextId EXCEPT ![g] = @ + 1]
         /\ rw' = [rw EXCEPT ![w].pc = "done", ![w].note = "sent",
                             ![w].target = targetTopicId]
  /\ UNCHANGED <<codecVars, apiVars, indexVars, rsaves, calm, eventCap, kvEnabled,
                 admins, ownerPinned, kvTopics, topics, nextPm, ev, nEvents,
                 nFaults, authored>>

(* handleBanCommands with banTopic / unbanTopic up to updateMapping: the   *)
(* load of the record, the checks and markBan.                             *)
RaceBan(w, t, banned) ==
  /\ WorkerFree(w)
  /\ t \in topics[RaceGroup]
  /\ LET text == loadMetadata
         parsed == parseMetadataText(text)
         metaData == [parsed EXCEPT !.superGroupChatId =
                        IF Truthy(@) THEN @ ELSE RaceGroup]
         fromChatId == MapGet(metaData.topicToFromChat, t)
         e == [IdleWorker EXCEPT !.kind = IF banned THEN "ban" ELSE "unban",
                                 !.id = nEvents + 1, !.thread = t,
                                 !.loaded = metaData, !.data = metaData]
         quiet(tag) == [e EXCEPT !.pc = "done", !.note = tag]
     IN  rw' = Taking(w,
                  IF text = <<>> THEN quiet("noMetadata")
                  ELSE IF metaData.superGroupChatId # RaceGroup
                  THEN quiet("wrongGroup")
                  ELSE IF banned /\ ~Truthy(fromChatId)
                  THEN quiet("noMapping")
                  ELSE IF banned /\ isTopicBanned(metaData, t)
                  THEN quiet("alreadyBanned")
                  ELSE IF ~banned /\ ~isTopicBanned(metaData, t)
                  THEN quiet("notBanned")
                  ELSE [e EXCEPT !.pc = IF kvEnabled THEN "put" ELSE "edit",
                                 !.data = markBan(metaData, t, banned)])
  /\ nEvents' = nEvents + 1
  /\ UNCHANGED <<codecVars, apiVars, indexVars, rsaves, calm, eventCap, kvEnabled,
                 admins, ownerPinned, groupPinned, kvTopics, kvLinks, topics,
                 nextId, nextPm, ev, nFaults, authored>>

RaceNext ==
  \/ \E w \in Workers, u \in Users, replyTo \in 0..MaxPm :
       RacePrivate(w, u, replyTo)
  \/ \E w \in Workers : RaceCreate(w)
  \/ \E w \in Workers : RacePut(w)
  \/ \E w \in Workers : RaceEdit(w)
  \/ \E w \in Workers : RaceCopy(w)
  \/ \E w \in Workers, t \in 1..MaxCalmId, banned \in BOOLEAN :
       RaceBan(w, t, banned)

SpecRace == RaceInit /\ [][RaceNext]_vars

(***************************************************************************)
(* Properties of the metadata codec.                                       *)
(***************************************************************************)
SameBindings(a, b) ==
  /\ a.superGroupChatId = b.superGroupChatId
  /\ Pairs(a.topicToFromChat) = Pairs(b.topicToFromChat)
  /\ Pairs(a.fromChatToTopic) = Pairs(b.fromChatToTopic)
  /\ Pairs(a.bannedTopics) = Pairs(b.bannedTopics)

IsSuffix(kept, all) ==
  \E k \in 0..Len(all) : kept = SubSeq(all, k + 1, Len(all))

(* C9: for a binding set whose encoding is at most 4096 characters,        *)
(* decoding the encoding gives back the same group id, the same bindings   *)
(* in both directions and the same set of blocked threads.                 *)
C9_RoundTrip ==
  (ci = 3 /\ NaiveLength(cdata) <= MAX_TEXT_LENGTH)
    => SameBindings(cdec, cdata)

(* C9 witness: a structure encoding into exactly 4096 characters, with     *)
(* blocked threads, has been encoded and decoded back to itself.           *)
C9_Witness ==
  /\ ci = 3
  /\ NaiveLength(cdata) = MAX_TEXT_LENGTH
  /\ cdata.bannedTopics # <<>>
  /\ Len(cout) = MAX_TEXT_LENGTH
  /\ SameBindings(cdec, cdata)

(* C10: for a binding set whose naive encoding exceeds 4096 characters the *)
(* output is at most 4096 characters long, is the encoding of what it      *)
(* decodes to, and keeps exactly a suffix of the bindings in insertion     *)
(* order, each with its blocked flag.                                      *)
C10_TrimKeepsSuffix ==
  (ci = 3 /\ NaiveLength(cdata) > MAX_TEXT_LENGTH)
    => /\ Len(cout) <= MAX_TEXT_LENGTH
       /\ stringifyData(cdec) = cout
       /\ cdec.superGroupChatId = cdata.superGroupChatId
       /\ IsSuffix(cdec.topicToFromChat, cdata.topicToFromChat)
       /\ IsSuffix(cdec.fromChatToTopic, cdata.fromChatToTopic)
       /\ cdec.bannedTopics =
            SelectSeq(cdata.bannedTopics,
                      LAMBDA t : MapHas(cdec.topicToFromChat, t))

(* C10 witness: an oversized structure has been trimmed by more than one   *)
(* binding and the bindings kept are the most recently inserted ones.      *)
C10_Witness ==
  /\ ci = 3
  /\ NaiveLength(cdata) > MAX_TEXT_LENGTH
  /\ Len(cdec.topicToFromChat) > 0
  /\ Len(cdec.topicToFromChat) < Len(cdata.topicToFromChat) - 1
  /\ IsSuffix(cdec.topicToFromChat, cdata.topicToFromChat)

(***************************************************************************)
(* Properties of the key-value message index.                              *)
(***************************************************************************)
StoredLinks == kvLinks[IndexGroup]

CapHolds == \A g \in Groups : Len(kvLinks[g]) <= MAX_KV_MAPPINGS

AppendAtCapShifts ==
  (xlast.op = "append" /\ Len(xlast.before) = MAX_KV_MAPPINGS)
    => StoredLinks = Append(Tail(xlast.before), xlast.link)

FindAvoidsDropped ==
  /\ \A l \in xgone \cup {xlast.link} :
       /\ findTopicMessageId(StoredLinks, l.pmMessageId) \notin xgone
       /\ findPmMessageId(StoredLinks, l.topicMessageId) \notin xgone

(* C8: after any sequence of appends and purges the stored list holds at   *)
(* most 1000 links; an append to a list of 1000 links leaves exactly 1000, *)
(* the former list without its oldest link followed by the new link; and   *)
(* the two finds never return a link that was dropped.                     *)
C8_IndexCap == CapHolds /\ AppendAtCapShifts /\ FindAvoidsDropped

(***************************************************************************)
(* Properties of the relay engine.                                         *)
(***************************************************************************)
MutualInverse(data) ==
  /\ \A p \in Pairs(data.topicToFromChat) :
       <<p[2], p[1]>> \in Pairs(data.fromChatToTopic)
  /\ \A p \in Pairs(data.fromChatToTopic) :
       <<p[2], p[1]>> \in Pairs(data.topicToFromChat)

(* C1: in every reachable state the two indices of the mapping structure,  *)
(* in the event's memory, in the key-value copy and in the decoding of the *)
(* pinned record, are mutual inverses.                                     *)
C1_MutualInverse ==
  /\ MutualInverse(ev.meta)
  /\ MutualInverse(parseMetadataText(loadMetadata))
  /\ \A g \in Groups : kvTopics[g] # <<>> => MutualInverse(kvTopics[g][1])

CopyCalls(e) == SelectSeq(e.calls, LAMBDA c : c.method = "copyMessage")

(* Thread creations issued after the event's first copy call. *)
ReplacementCreates(e) ==
  LET copies == {i \in 1..Len(e.calls) : e.calls[i].method = "copyMessage"}
  IN  IF copies = {} THEN 0
      ELSE Cardinality({i \in 1..Len(e.calls) :
                          /\ i > Min(copies)
                          /\ e.calls[i].method = "createForumTopic"})

ThreadInvalid(tag) == tag \in {"message thread not found", "TOPIC_ID_INVALID"}

(* C2: within one user-to-thread relay event, whatever the gateway         *)
(* answers, at most two copy calls and at most one replacement thread      *)
(* creation are issued, and after a second rejection the event has ended.  *)
C2_AtMostOneRetry ==
  ev.kind = "private"
    => /\ Len(CopyCalls(ev)) <= 2
       /\ ReplacementCreates(ev) <= 1
       /\ (Len(CopyCalls(ev)) = 2 => ev.pc = "done")

(* A thread-invalid rejection has been handled, with every store access of *)
(* the event successful, and the retry's copy call has not been issued.    *)
BeforeRetryCopy ==
  /\ ev.kind = "private"
  /\ ev.pc \in {"fwd", "copy"}
  /\ nFaults = ev.seen.faults
  /\ CopyCalls(ev) # <<>>
  /\ ThreadInvalid(CopyCalls(ev)[Len(CopyCalls(ev))].tag)

Persisted(data) ==
  /\ SameBindings(parseMetadataText(loadMetadata), data)
  /\ kvEnabled => /\ kvTopics[data.superGroupChatId] # <<>>
                  /\ SameBindings(kvTopics[data.superGroupChatId][1], data)

(* C3: after a thread-invalid rejection for target thread t and before the *)
(* retry's copy call, the mapping has no binding for t, the message index  *)
(* has no link with thread t, and the updated mapping is persisted (no     *)
(* store access having failed).                                            *)
C3_RecoveredBeforeRetry ==
  BeforeRetryCopy
    => /\ ~MapHas(ev.meta.topicToFromChat, ev.target)
       /\ \A l \in Pairs(LoadLinks(ev.meta.superGroupChatId, TRUE)) :
            l.topicId # ev.target
       /\ Persisted(ev.meta)

(* A finished user-to-thread relay whose remote calls and store accesses   *)
(* all succeeded: one copy call, accepted.                                 *)
CleanRelay ==
  /\ ev.kind = "private"
  /\ ev.pc = "done"
  /\ nFaults = ev.seen.faults
  /\ Len(CopyCalls(ev)) = 1
  /\ CopyCalls(ev)[1].tag = "ok"

LastLink(g) == LoadLinks(g, TRUE)[Len(LoadLinks(g, TRUE))]

(* C4: a clean relay from a non-administrator chat without a binding       *)
(* issues exactly one thread creation, inserts and persists exactly one    *)
(* binding and appends exactly one link; a clean relay from a chat that    *)
(* already has a binding issues no thread creation and is delivered to the *)
(* thread of that binding.                                                 *)
C4_CreateOnceThenReuse ==
  /\ (CleanRelay /\ ev.chat \notin admins /\ ev.seen.startTopic = 0)
       => /\ CountCalls(ev, "createForumTopic") = 1
          /\ Len(ev.meta.topicToFromChat) = ev.seen.bindings + 1
          /\ MapGet(ev.meta.fromChatToTopic, ev.chat) = ev.thread
          /\ MapGet(ev.meta.topicToFromChat, ev.thread) = ev.chat
          /\ Persisted(ev.meta)
          /\ Len(LoadLinks(ev.group, TRUE)) = ev.seen.links + 1
          /\ LastLink(ev.group).pmMessageId = ev.msgId
  /\ (CleanRelay /\ ev.seen.startTopic # 0)
       => /\ CountCalls(ev, "createForumTopic") = 0
          /\ CopyCalls(ev)[1].thread = ev.seen.startTopic

(* C5: a message from the chat bound to a blocked thread causes no copy    *)
(* call and no thread creation and ends with the blocked notice to the     *)
(* sender; the message that follows the unblocking of the chat's thread is *)
(* copied into that thread.                                                *)
C5_BlockedThenRestored ==
  /\ (/\ ev.kind = "private"
      /\ ev.seen.startTopic # 0
      /\ isTopicBanned(ev.meta, ev.seen.startTopic))
       => /\ CountCalls(ev, "copyMessage") = 0
          /\ CountCalls(ev, "createForumTopic") = 0
          /\ ev.pc = "done"
               => ev.calls = <<Call("sendMessage", ev.chat, 0, "blocked")>>
  /\ (/\ ev.kind = "private"
      /\ ev.pc = "done"
      /\ ev.seen.unblocked # 0
      /\ ev.seen.unblocked = ev.seen.startTopic
      /\ nFaults = ev.seen.faults
      /\ \A i \in 1..Len(CopyCalls(ev)) : CopyCalls(ev)[i].tag = "ok")
       => /\ Len(CopyCalls(ev)) = 1
          /\ CopyCalls(ev)[1].thread = ev.seen.startTopic

(* C6: whatever the member-role lookups answer, no thread creation and no  *)
(* copy call is issued for a message of an administrator's chat, and no    *)
(* binding of such a chat is held or stored.                               *)
C6_NoThreadForAdmin ==
  /\ (ev.kind = "private" /\ ev.chat \in admins)
       => /\ CountCalls(ev, "createForumTopic") = 0
          /\ CountCalls(ev, "copyMessage") = 0
  /\ \A u \in admins :
       /\ ~MapHas(ev.meta.fromChatToTopic, u)
       /\ ~MapHas(parseMetadataText(loadMetadata).fromChatToTopic, u)
       /\ \A g \in Groups :
            kvTopics[g] # <<>> => ~MapHas(kvTopics[g][1].fromChatToTopic, u)

(* C7: an accepted copy of a message from user chat u went into the thread *)
(* bound to u, a thread bound to no other chat, and its link is recorded   *)
(* under that thread.                                                      *)
C7_OwnThreadOnly ==
  (/\ ev.kind = "private"
   /\ ev.pc = "done"
   /\ nFaults = ev.seen.faults
   /\ CopyCalls(ev) # <<>>
   /\ CopyCalls(ev)[Len(CopyCalls(ev))].tag = "ok")
    => LET copy == CopyCalls(ev)[Len(CopyCalls(ev))]
           bound == MapGet(ev.meta.fromChatToTopic, ev.chat)
       IN  /\ copy.thread = bound
           /\ MapGet(ev.meta.topicToFromChat, copy.thread) = ev.chat
           /\ LastLink(ev.group).topicId = bound
           /\ LastLink(ev.group).pmMessageId = ev.msgId

(***************************************************************************)
(* Properties of the mapping store and of its two copies.                  *)
(***************************************************************************)
(* The mapping of the event has just been loaded: nothing else was done.   *)
EventLoaded ==
  /\ ev.pc \in {"fwd", "tcopy"}
  /\ ev.calls = <<>>

(* C11: an event that has loaded the mapping of a group whose key-value    *)
(* copy exists operates on a structure equal to that copy.                 *)
C11_LoadPrefersKvCopy ==
  (/\ EventLoaded
   /\ kvEnabled
   /\ loadTopicMappingFromKV(ev.meta.superGroupChatId, TRUE) # <<>>)
    => SameBindings(ev.meta,
                    loadTopicMappingFromKV(ev.meta.superGroupChatId, TRUE)[1])

(* C12: after a save that wrote the key-value copy and the pinned text,    *)
(* the text decodes to the group id, bindings and blocked threads of the   *)
(* key-value copy.                                                         *)
C12_CopiesAgreeAfterSave ==
  ci = 3 => SameBindings(cdec, saveTopicMappingToKV(cdata))

(* C13: once a reset has completed, the owner's pinned record is gone and  *)
(* the group has no pinned index, no key-value mapping copy and no         *)
(* key-value link, so that every lookup in the group's index finds none.   *)
C13_ResetClearsAll ==
  (ev.kind = "reset" /\ ev.pc = "done")
    => /\ ownerPinned = <<>>
       /\ groupPinned[ev.group] = <<>>
       /\ kvTopics[ev.group] = <<>>
       /\ kvLinks[ev.group] = <<>>
       /\ LoadLinks(ev.group, TRUE) = <<>>

(* The group recorded in the owner's pinned record, 0 when none.           *)
BoundGroup == parseMetadataText(loadMetadata).superGroupChatId

(* C14: a step that is not part of a reset leaves an existing group        *)
(* binding as it is.                                                       *)
C14_GroupBindingFixed ==
  [][(Truthy(BoundGroup) /\ ev'.kind # "reset") => BoundGroup' = BoundGroup]_vars

(* The threads bound in the mapping store of group g: those of its         *)
(* key-value copy and those of the pinned record when it names g.          *)
BoundThreads(g) ==
  (IF kvTopics[g] # <<>>
   THEN Pairs(MapKeys(kvTopics[g][1].topicToFromChat)) ELSE {})
    \cup (IF BoundGroup = g
          THEN Pairs(MapKeys(parseMetadataText(loadMetadata).topicToFromChat))
          ELSE {})

(* C15: between events every stored link of a group names a thread that    *)
(* has a binding in the group's mapping store.                             *)
C15_LinksHaveBindings ==
  ev.pc \in {"idle", "done"}
    => \A g \in Groups :
         \A i \in 1..Len(LoadLinks(g, TRUE)) :
           LoadLinks(g, TRUE)[i].topicId \in BoundThreads(g)

(* C16: when the copy of a thread-to-user relay was rejected as            *)
(* thread-invalid and nothing else failed, the event ends with the binding *)
(* of the thread removed from the persisted mapping, no link of the thread *)
(* left in the index, the failure marker on the operator's message and a   *)
(* single copy call.                                                       *)
C16_TopicRecovery ==
  (/\ ev.kind = "topic"
   /\ ev.pc = "done"
   /\ nFaults = 0
   /\ CopyCalls(ev) # <<>>
   /\ ThreadInvalid(CopyCalls(ev)[1].tag))
    => /\ Len(CopyCalls(ev)) = 1
       /\ ~MapHas(ev.meta.topicToFromChat, ev.thread)
       /\ Persisted(ev.meta)
       /\ \A i \in 1..Len(LoadLinks(ev.group, TRUE)) :
            LoadLinks(ev.group, TRUE)[i].topicId # ev.thread
       /\ ev.calls[Len(ev.calls)]
            = Call("setMessageReaction", ev.group, ev.thread, "failed")

(***************************************************************************)
(* Properties of edits and deletions.                                      *)
(***************************************************************************)
(* The thread bound to the chat of a user's event, the chat bound to the   *)
(* thread of an operator's event, and the links of the edited or replied-to *)
(* message, as the event loaded them.                                      *)
EvTopic == MapGet(ev.meta.fromChatToTopic, ev.chat)
EvPmChat == MapGet(ev.meta.topicToFromChat, ev.thread)
EvLinkOfUserMessage(m) == findTopicMessageId(LinksFor(ev.group), m)
EvLinkOfThreadMessage(m) == findPmMessageId(LinksFor(ev.group), m)

UserEditDone ==
  /\ ev.kind = "uedit" /\ ev.pc = "done"
  /\ Truthy(EvTopic)
  /\ ~isTopicBanned(ev.meta, EvTopic)

OwnerEditDone ==
  /\ ev.kind = "oedit" /\ ev.pc = "done"
  /\ ev.chat = ev.group
  /\ Truthy(EvPmChat)

(* C17: an edit of a message that has no link, made by the user of a bound *)
(* and unblocked chat or by the operator in a bound thread, ends with a    *)
(* new copy of the edited message sent to the other side and the notice    *)
(* that it supersedes the earlier one.                                     *)
C17_UnlinkedEditResent ==
  /\ (UserEditDone /\ ~Truthy(EvLinkOfUserMessage(ev.msgId).topicMessageId))
       => /\ \E i \in 1..Len(ev.calls) :
               /\ ev.calls[i].method = "copyMessage"
               /\ ev.calls[i].chat = ev.group
               /\ ev.calls[i].thread = EvTopic
          /\ Accepted(ev.calls, "sendMessage", "editHint")
  /\ (OwnerEditDone /\ ~Truthy(EvLinkOfThreadMessage(ev.msgId).pmMessageId))
       => \E i \in 1..Len(ev.calls) :
            /\ ev.calls[i].method \in {"copyMessage", "sendMessage"}
            /\ ev.calls[i].chat = EvPmChat

(* C18: an edit that carries no text ends with no edit call and no copy    *)
(* call, whatever the index holds; every call it issued is the notice that *)
(* only text edits are relayed.                                            *)
C18_NoTextNotReproduced ==
  (ev.kind \in {"uedit", "oedit"} /\ ev.pc = "done" /\ ~ev.hasText)
    => /\ ~Issued(ev.calls, "editMessageText")
       /\ ~Issued(ev.calls, "copyMessage")
       /\ \A i \in 1..Len(ev.calls) :
            ev.calls[i].method = "sendMessage"

(* The edit call of the operator's edit goes to the bound user chat and    *)
(* the counterpart of the edited message.                                  *)
OwnerEditCall ==
  (/\ OwnerEditDone
   /\ ev.hasText
   /\ Truthy(EvLinkOfThreadMessage(ev.msgId).pmMessageId))
    => /\ ev.calls # <<>>
       /\ ev.calls[1].method = "editMessageText"
       /\ ev.calls[1].chat = EvPmChat
       /\ ev.calls[1].message = EvLinkOfThreadMessage(ev.msgId).pmMessageId

(* C19: the operator's edit of a linked message of a bound thread issues   *)
(* the edit call against the bound user chat and the counterpart message,  *)
(* and when the call is accepted the edited marker goes to that user chat. *)
C19_OwnerEditReachesUser ==
  /\ OwnerEditCall
  /\ (/\ OwnerEditDone
      /\ Accepted(ev.calls, "editMessageText", "ok"))
       => \E i \in 1..Len(ev.calls) :
            /\ ev.calls[i].method = "setMessageReaction"
            /\ ev.calls[i].tag = "edited"
            /\ ev.calls[i].chat = EvPmChat

OwnerDeleteDone ==
  /\ ev.kind = "odelete" /\ ev.pc = "done"
  /\ ev.chat = ev.group

(* C20: in the operator's deletion the cleanup call comes after an         *)
(* accepted deletion of the counterpart in the bound user chat and removes *)
(* the original and the command; without an accepted remote deletion       *)
(* (no binding, no counterpart, or a rejected call) there is no cleanup    *)
(* call and no deleted marker.                                             *)
C20_CleanupAfterRemoteDelete ==
  OwnerDeleteDone
    => /\ \A j \in 1..Len(ev.calls) :
            ev.calls[j].method = "deleteMessages"
              => /\ \E i \in 1..(j - 1) :
                      /\ ev.calls[i].method = "deleteMessage"
                      /\ ev.calls[i].tag = "ok"
                      /\ ev.calls[i].chat = EvPmChat
                      /\ ev.calls[i].message
                           = EvLinkOfThreadMessage(ev.replyTo).pmMessageId
                 /\ Includes(ev.calls[j].message, ev.replyTo)
                 /\ Includes(ev.calls[j].message, ev.msgId)
       /\ (\/ ~Truthy(EvPmChat)
           \/ ~Truthy(EvLinkOfThreadMessage(ev.replyTo).pmMessageId)
           \/ ~Accepted(ev.calls, "deleteMessage", "ok"))
            => /\ ~Issued(ev.calls, "deleteMessages")
               /\ ~Accepted(ev.calls, "setMessageReaction", "deleted")

(* C20 witness: a deletion whose remote call was accepted has ended with   *)
(* the cleanup of the original, the command and the confirmation.          *)
C20_Witness ==
  /\ OwnerDeleteDone
  /\ Accepted(ev.calls, "deleteMessage", "ok")
  /\ ev.calls[Len(ev.calls)].method = "deleteMessages"
  /\ Len(ev.calls[Len(ev.calls)].message) = 3

ReactionDone == ev.kind \in {"ureact", "oreact"} /\ ev.pc = "done"

(* C21: one reaction event, which invokes setMessageReaction at most once, *)
(* issues at most two set-reaction calls; a second call follows only a     *)
(* first one rejected with REACTIONS_TOO_MANY, addresses the same message  *)
(* and carries the last reaction of the requested list, or the empty list  *)
(* when none was requested; after REACTION_INVALID or any other failure    *)
(* there is no second call.                                                *)
C21_ReactionRetry ==
  ReactionDone
    => /\ Len(ev.calls) <= 2
       /\ Len(ev.calls) = 2
            => /\ ev.calls[1].tag = "REACTIONS_TOO_MANY"
               /\ ev.calls[2].chat = ev.calls[1].chat
               /\ ev.calls[2].message = ev.calls[1].message
               /\ ev.calls[2].reaction
                    = IF ev.reaction = <<>> THEN <<>>
                      ELSE <<ev.reaction[Len(ev.reaction)]>>
       /\ (ev.calls # <<>> /\ ev.calls[1].tag # "REACTIONS_TOO_MANY")
            => Len(ev.calls) = 1
       /\ ev.calls # <<>> => ev.calls[1].reaction = ev.reaction

(* C21 witness: a list of two reactions was rejected as too many and the   *)
(* second call carried the last of them.                                   *)
C21_Witness ==
  /\ ReactionDone
  /\ Len(ev.reaction) = 2
  /\ Len(ev.calls) = 2
  /\ ev.calls[2].reaction = <<ev.reaction[2]>>

(* C22: a reaction of the owner on a message of the bound group that has a *)
(* link, in a thread that has a binding, ends with a set-reaction call on  *)
(* the counterpart message in the bound user chat carrying the reaction    *)
(* list of the update.                                                     *)
C22_OwnerReactionReachesUser ==
  (/\ ev.kind = "oreact" /\ ev.pc = "done"
   /\ ev.chat = ev.group
   /\ Truthy(EvPmChat)
   /\ Truthy(EvLinkOfThreadMessage(ev.msgId).pmMessageId))
    => /\ ev.calls # <<>>
       /\ ev.calls[1].chat = EvPmChat
       /\ ev.calls[1].message = EvLinkOfThreadMessage(ev.msgId).pmMessageId
       /\ ev.calls[1].reaction = ev.reaction


(* The record a command loads, and whether it lists thread t as blocked.   *)
StoredMeta == parseMetadataText(loadMetadata)
StoredBlocked(t) == \E i \in 1..Len(StoredMeta.bannedTopics) :
                      StoredMeta.bannedTopics[i] = t

(* C23: a block command for a thread the loaded record lists as blocked,   *)
(* and an unblock command for a thread it does not, leave the pinned       *)
(* record, the key-value copy and the link stores as they are and issue    *)
(* one call, the notice into the thread; a command repeated after itself   *)
(* therefore changes nothing.                                              *)
C23_RepeatedBlockIsNoOp ==
  [][(/\ ev'.kind \in {"ban", "unban"}
      /\ nEvents' = nEvents + 1
      /\ loadMetadata # <<>>
      /\ StoredMeta.superGroupChatId \in {0, ev'.chat}
      /\ StoredBlocked(ev'.thread) = (ev'.kind = "ban"))
       => /\ ownerPinned' = ownerPinned
          /\ kvTopics' = kvTopics
          /\ groupPinned' = groupPinned
          /\ kvLinks' = kvLinks
          /\ Len(ev'.calls) = 1
          /\ ev'.calls[1].method = "sendMessage"
          /\ ev'.calls[1].chat = ev'.chat
          /\ ev'.calls[1].thread = ev'.thread
          /\ ev'.calls[1].tag \in {"alreadyBanned", "notBanned", "noMapping"}]_vars

(* C23 witness: a block command found its thread blocked already.          *)
C23_Witness ==
  /\ ev.kind = "ban" /\ ev.pc = "done"
  /\ StoredBlocked(ev.thread)
  /\ Len(ev.calls) = 1
  /\ ev.calls[1].tag = "alreadyBanned"


(* C24: a message the owner posts in a thread of the bound group that is   *)
(* bound to a user who is no administrator goes on to the copy toward that *)
(* user's chat also while the record lists the thread as blocked.          *)
C24_BlockedThreadStillRelays ==
  [][(/\ ev'.kind = "topic"
      /\ nEvents' = nEvents + 1
      /\ StoredMeta.superGroupChatId = ev'.chat
      /\ Truthy(MapGet(StoredMeta.topicToFromChat, ev'.thread))
      /\ MapGet(StoredMeta.topicToFromChat, ev'.thread) \notin admins
      /\ StoredBlocked(ev'.thread))
       => ev'.pc = "tcopy"]_vars


(* The calls a step added to the event. *)
AddedCalls == SubSeq(ev'.calls, Len(ev.calls) + 1, Len(ev'.calls))

(* C25: the step of a relay in which createForumTopic fails ends the       *)
(* event: the pinned record, the key-value copy, the link stores and the   *)
(* threads stay as they were, the event holds no binding for the sender,   *)
(* the failed creation is followed by no copy call and no other creation   *)
(* call, but by a report to the owner and, last, the failed marker on the  *)
(* sender's message.                                                       *)
C25_CreationFailureIsFatal ==
  [][(/\ ev.pc = "fwd"
      /\ \E i \in 1..Len(AddedCalls) :
           /\ AddedCalls[i].method = "createForumTopic"
           /\ AddedCalls[i].tag = "failed")
       => /\ ev'.pc = "done"
          /\ ownerPinned' = ownerPinned
          /\ kvTopics' = kvTopics
          /\ groupPinned' = groupPinned
          /\ kvLinks' = kvLinks
          /\ topics' = topics
          /\ ~MapHas(ev'.meta.fromChatToTopic, ev'.chat)
          /\ AddedCalls[1].method = "createForumTopic"
          /\ \A i \in 2..Len(AddedCalls) :
               AddedCalls[i].method \notin {"createForumTopic", "copyMessage"}
          /\ \E i \in 2..Len(AddedCalls) :
               /\ AddedCalls[i].method = "sendMessage"
               /\ AddedCalls[i].chat = 0
          /\ AddedCalls[Len(AddedCalls)].method = "setMessageReaction"
          /\ AddedCalls[Len(AddedCalls)].chat = ev'.chat
          /\ AddedCalls[Len(AddedCalls)].tag = "failed"]_vars

(* C25 witness: a relay ended on a failed creation call.                   *)
C25_Witness ==
  /\ ev.kind = "private" /\ ev.pc = "done"
  /\ \E i \in 1..Len(ev.calls) :
       /\ ev.calls[i].method = "createForumTopic"
       /\ ev.calls[i].tag = "failed"
  /\ ev.calls[Len(ev.calls)].tag = "failed"


(* A step that saved the mapping, and the calls the step issued.           *)
SavedNow ==
  /\ ev'.edits # <<>>
  /\ nEvents' # nEvents \/ Len(ev'.edits) > Len(ev.edits)
StepCalls == IF nEvents' # nEvents THEN ev'.calls ELSE AddedCalls

(* C26: when the edit of the pinned record is answered "message is not     *)
(* modified", nothing is reported to the owner, the step issues no call    *)
(* to the owner's chat, the event does not end in the error path, and the  *)
(* pinned record is the encoding of the structure the event goes on with,  *)
(* as it is after an accepted edit.                                        *)
C26_NotModifiedIsSuccess ==
  [][(/\ SavedNow
      /\ ev'.edits[Len(ev'.edits)].resp = "message is not modified")
       => /\ ~ev'.edits[Len(ev'.edits)].reported
          /\ \A i \in 1..Len(StepCalls) : StepCalls[i].chat # 0
          /\ \A i \in 1..Len(StepCalls) : StepCalls[i].tag # "relayError"
          /\ ownerPinned' = <<trimMetadataEntries(ev'.meta).text>>]_vars

(* C26 witness: the first /init wrote the text the new pinned message      *)
(* already had and ended with its normal notice.                           *)
C26_Witness ==
  /\ ev.kind = "init" /\ ev.pc = "done"
  /\ ev.edits # <<>>
  /\ ev.edits[1].resp = "message is not modified"
  /\ ev.calls[1].tag = "initialized"


(* The links of group g held by either store: the key-value list and the   *)
(* group's pinned text.                                                    *)
EitherStoreLinks(g) ==
  Pairs(kvLinks[g]) \cup Pairs(parseMessageMappings(loadMessageMappingText(g, TRUE)))

(* C27: with the key-value store bound, a relay whose copy was accepted    *)
(* ends with the delivered marker on the sender's message whether or not a *)
(* get or put failed, and the link of the relayed message is then held by  *)
(* the key-value list or, when the store failed, by the pinned text.       *)
C27_KvFailureFallsBack ==
  (/\ kvEnabled
   /\ ev.kind \in {"private", "topic"}
   /\ ev.pc = "done"
   /\ Accepted(ev.calls, "copyMessage", "ok"))
    => /\ ev.calls[Len(ev.calls)].method = "setMessageReaction"
       /\ ev.calls[Len(ev.calls)].tag = "sent"
       /\ \E l \in EitherStoreLinks(ev.group) :
            IF ev.kind = "private"
            THEN l.pmMessageId = ev.msgId /\ l.topicId = ev.target
            ELSE l.topicMessageId = ev.msgId /\ l.topicId = ev.thread


(* C28: with a group bound, a message of a private chat that is no command *)
(* and whose sender is no administrator and has no blocked thread ends     *)
(* with a copy call toward a thread of the group, whatever its text is.    *)
C28_EveryTextRelayed ==
  (/\ ev.kind = "private" /\ ev.pc = "done"
   /\ Truthy(ev.group)
   /\ ev.chat \notin admins
   /\ ~StoredBlocked(MapGet(StoredMeta.fromChatToTopic, ev.chat)))
    => \E i \in 1..Len(ev.calls) :
         /\ ev.calls[i].method = "copyMessage"
         /\ ev.calls[i].chat = ev.group
         /\ Truthy(ev.calls[i].thread)



(***************************************************************************)
(* C29.  A relay event is one that entered forwardPrivateToTopic, or       *)
(* forwardTopicToPrivate with a user chat bound to its thread.             *)
(***************************************************************************)
RelayEvent ==
  \/ ev.kind = "private" /\ Truthy(ev.meta.superGroupChatId)
  \/ /\ ev.kind = "topic"
     /\ \/ Truthy(ev.target)
        \/ ev.pc = "tcopy" /\ Truthy(MapGet(ev.meta.topicToFromChat, ev.thread))

IsMarker(c, tag) == c.method = "setMessageReaction" /\ c.tag = tag

IsTerminalOutcome(c) ==
  \/ IsMarker(c, "sent")
  \/ IsMarker(c, "failed")
  \/ c.method = "sendMessage" /\ c.tag = "blocked"

(* A call that was rejected, or the report that follows a throw. *)
IsFailure(c) ==
  \/ c.method \in {"copyMessage", "createForumTopic"} /\ c.tag # "ok"
  \/ c.method = "sendMessage" /\ c.tag \in {"relayError", "adminConflict"}

TerminalOutcomes ==
  {i \in 1..Len(ev.calls) : IsTerminalOutcome(ev.calls[i])}

(* C29: in every relay event the delivered marker comes only after a copy  *)
(* call that was accepted, a failed marker only after a call that was      *)
(* rejected or a throw, a finished relay event has exactly one terminal    *)
(* outcome (delivered marker, failed marker or blocked notice), and no     *)
(* relay event has both a delivered and a failed marker.                   *)
C29_OneOutcomeAfterResult ==
  RelayEvent =>
    /\ \A i \in 1..Len(ev.calls) :
         IsMarker(ev.calls[i], "sent") =>
           /\ i > 1
           /\ ev.calls[i - 1].method = "copyMessage"
           /\ ev.calls[i - 1].tag = "ok"
    /\ \A i \in 1..Len(ev.calls) :
         IsMarker(ev.calls[i], "failed") =>
           \E j \in 1..(i - 1) : IsFailure(ev.calls[j])
    /\ Cardinality(TerminalOutcomes) <= 1
    /\ ev.pc = "done" => Cardinality(TerminalOutcomes) = 1

(* A private relay whose first copy was rejected for an invalid thread and *)
(* whose second copy was accepted: one delivered marker, at the end.       *)
C29_Witness ==
  /\ ev.kind = "private" /\ ev.pc = "done" /\ RelayEvent
  /\ \E j \in 1..Len(ev.calls) :
       ev.calls[j].method = "copyMessage" /\ ev.calls[j].tag # "ok"
  /\ IsMarker(ev.calls[Len(ev.calls)], "sent")
  /\ Cardinality(TerminalOutcomes) = 1


(***************************************************************************)
(* C30.  The bindings and blocked flags of a structure, and the value a    *)
(* copy of the mapping store holds.                                        *)
(***************************************************************************)
Entries(data) ==
  {<<"binding", p[1], p[2]>> : p \in Pairs(data.topicToFromChat)}
    \cup {<<"blocked", t, 0>> : t \in Pairs(data.bannedTopics)}

CopyValue(copy) ==
  IF copy = "text" THEN parseMetadataText(loadMetadata)
  ELSE IF kvTopics[RaceGroup] # <<>> THEN kvTopics[RaceGroup][1]
  ELSE EmptyMeta

SavesOn(copy) == {i \in 1..Len(rsaves) : rsaves[i].copy = copy}

RaceQuiet == \A w \in Workers : rw[w].pc \in {"idle", "done"}

(* C30: once the events that ran at the same time have completed, each     *)
(* copy of the mapping store holds exactly the bindings and flags of the   *)
(* structure its last writer saved; a binding or flag saved by an earlier  *)
(* writer that the last writer had neither loaded nor written is absent.   *)
C30_LastWriterWins ==
  RaceQuiet =>
    \A copy \in {"kv", "text"} :
      SavesOn(copy) # {} =>
        \E last \in {rsaves[Max(SavesOn(copy))]} :
          /\ SameBindings(CopyValue(copy), last.data)
          /\ \A i \in SavesOn(copy) :
               rsaves[i].by # last.by =>
                 \A x \in Entries(rsaves[i].data) \
                          (Entries(last.loaded) \cup Entries(last.data)) :
                   x \notin Entries(CopyValue(copy))

(* Two events have saved the pinned record, the later one from a structure *)
(* loaded before the earlier save, and the binding the earlier one created *)
(* is gone.                                                                *)
C30_Witness ==
  /\ RaceQuiet
  /\ \E i, j \in SavesOn("text") :
       /\ i < j /\ j = Max(SavesOn("text"))
       /\ rsaves[i].by # rsaves[j].by
       /\ \E x \in Entries(rsaves[i].data) \ Entries(rsaves[i].loaded) :
            /\ x[1] = "binding"
            /\ x \notin Entries(rsaves[j].loaded)
            /\ x \notin Entries(CopyValue("text"))


(***************************************************************************)
(* C31.  A relayed private message whose event was handled alone, with no  *)
(* other event in progress from its start to its end.                      *)
(***************************************************************************)
RelayedAlone(w) ==
  /\ rw[w].kind = "private" /\ rw[w].pc = "done" /\ rw[w].note = "sent"
  /\ rw[w].solo

BindingsOf(data, u) == {p \in Pairs(data.topicToFromChat) : p[2] = u}

(* C31: whatever events ran at the same time before, a message handled     *)
(* alone leaves its chat with exactly one binding in the pinned record,    *)
(* the record's two indices mutual inverses, and is delivered into the     *)
(* bound thread, as is every other message of the chat handled alone.      *)
C31_ConvergesAfterRace ==
  RaceQuiet =>
    \A w \in Workers :
      RelayedAlone(w) =>
        /\ Cardinality(BindingsOf(StoredMeta, rw[w].chat)) = 1
        /\ MutualInverse(StoredMeta)
        /\ rw[w].target = MapGet(StoredMeta.fromChatToTopic, rw[w].chat)
        /\ \A v \in Workers :
             RelayedAlone(v) /\ rw[v].chat = rw[w].chat =>
               rw[v].target = rw[w].target


(***************************************************************************)
(* C32.  The link a lookup has to return for a key: the last one of the    *)
(* list that carries the key, none when no link carries it.                *)
(***************************************************************************)
LatestMatch(list, result, Matches(_)) ==
  IF \A i \in 1..Len(list) : ~Matches(list[i])
  THEN result = NoLink
  ELSE \E i \in 1..Len(list) :
         /\ result = list[i]
         /\ Matches(list[i])
         /\ \A j \in (i + 1)..Len(list) : ~Matches(list[j])

LinksBeforeRelay ==
  LET all == LoadLinks(ev.group, TRUE)
  IN  SubSeq(all, 1, Len(all) - 1)

ReplyHits ==
  {i \in 1..Len(LinksBeforeRelay) :
     LinksBeforeRelay[i].pmMessageId = ev.replyTo}

CrossThreadReply ==
  /\ ev.kind = "private" /\ ev.pc = "done"
  /\ Truthy(ev.replyTo)
  /\ Accepted(ev.calls, "copyMessage", "ok")
  /\ ReplyHits # {}
  /\ LinksBeforeRelay[Max(ReplyHits)].topicId # ev.thread

(* C33: when the message a user replies to resolves to a link of a thread  *)
(* other than the sender's own, the copy call goes into that thread with   *)
(* the link's thread-side message as reply reference, and the link the     *)
(* relay appends names that thread.                                        *)
C33_CrossThreadReply ==
  CrossThreadReply =>
    \E found \in {LinksBeforeRelay[Max(ReplyHits)]} :
      /\ \E i \in 1..Len(ev.calls) :
           /\ ev.calls[i].method = "copyMessage"
           /\ ev.calls[i].tag = "ok"
           /\ ev.calls[i].chat = ev.group
           /\ ev.calls[i].thread = found.topicId
           /\ ev.calls[i].reply = found.topicMessageId
      /\ \E last \in {LoadLinks(ev.group, TRUE)[Len(LoadLinks(ev.group, TRUE))]} :
           /\ last.topicId = found.topicId
           /\ last.pmMessageId = ev.msgId

C33_Witness == CrossThreadReply /\ ev.target # ev.thread


(***************************************************************************)
(* C34.                                                                    *)
(***************************************************************************)
WithoutThread(list, t) == SelectSeq(list, LAMBDA l : l.topicId # t)

(* C34: after the purge of thread t the message index holds the links it   *)
(* held before that name another thread, in their order, and no link of t. *)
C34_PurgeRemovesThreadOnly ==
  xlast.op = "purge" =>
    LoadLinks(IndexGroup, TRUE) = WithoutThread(xlast.before, xlast.thread)

(* C35: a thread's blocked flag changes only in response to a block or     *)
(* unblock command sent by the owner; a command of any other member of the *)
(* group, in any accepted form of its text, leaves the blocked set as it   *)
(* was.                                                                    *)
BlockedSet == parseMetadataText(loadMetadata).bannedTopics
C35_OnlyOwnerBlocks ==
  (ev.kind \in {"ban", "unban"} /\ ev.pc = "done"
     /\ BlockedSet # ev.seen.blocked)
    => ToStr(ev.from) = ownerUid.v

(* C36: callTelegramApi never throws: an exception of the transport or of  *)
(* the parsing is returned as a value with ok false and a description; a   *)
(* failed call sends at most one diagnostic to the owner, none when the    *)
(* failed method is sendMessage or no owner id was supplied, and no        *)
(* request follows the diagnostic, whatever became of it.                  *)
Diagnostics == SelectSeq(api.requests, LAMBDA r : r.to = "owner")
C36_ApiNeverThrows ==
  /\ api.pc \in {"idle", "post", "report", "returned"}
  /\ api.pc = "returned" =>
       /\ Len(api.requests) \in {1, 2}
       /\ api.requests[1] = ApiRequestOf(api.method, "target",
                                         api.requests[1].answer)
       /\ api.requests[1].answer \in ApiExceptions
            => api.data = [ok |-> FALSE, description |-> "error"]
       /\ api.requests[1].answer # "ok" => ~api.data.ok
       /\ Len(Diagnostics) <= 1
       /\ api.requests[1].answer = "ok" => Diagnostics = <<>>
       /\ (api.method = "sendMessage" \/ api.ownerUid = <<>>)
            => Diagnostics = <<>>
       /\ Diagnostics # <<>> => api.requests[Len(api.requests)].to = "owner"

C36_Witness ==
  /\ api.pc = "returned"
  /\ api.method = "copyMessage"
  /\ api.requests[1].answer = "parse"
  /\ Len(api.requests) = 2
  /\ api.requests[2] = ApiRequestOf("sendMessage", "owner", "transport")
  /\ api.data = [ok |-> FALSE, description |-> "error"]

(* C37: whatever the interleaving, at most one thread is created for a     *)
(* user chat while no recovery has removed its binding: two first messages *)
(* of one unbound chat handled at the same time do not create two threads. *)
CreatedThread(w) ==
  /\ rw[w].kind = "private"
  /\ rw[w].pc \in {"put", "edit", "copy", "done"}
  /\ Truthy(rw[w].thread)
  /\ ~Truthy(MapGet(rw[w].loaded.fromChatToTopic, rw[w].chat))
C37_OneCreationPerChat ==
  \A v, w \in Workers :
    (v # w /\ CreatedThread(v) /\ CreatedThread(w))
      => rw[v].chat # rw[w].chat

(* C38: a delete, edit or reaction coming from user chat u is applied only *)
(* to thread-side messages whose link lies in the thread bound to u, also  *)
(* when a link of another chat carries the same user-side message id.      *)
UserSideEvent == ev.kind \in {"uedit", "udelete", "ureact"} /\ ev.pc = "done"
GroupTargets ==
  {ev.calls[i].message :
     i \in {j \in 1..Len(ev.calls) :
              /\ ev.calls[j].method \in {"editMessageText", "deleteMessage",
                                         "setMessageReaction"}
              /\ ev.calls[j].chat = ev.group}}
C38_OwnLinksOnly ==
  UserSideEvent =>
    \A m \in GroupTargets :
      \A l \in Pairs(LinksFor(ev.group)) :
        l.topicMessageId = m => l.topicId = EvTopic

(* C39: while the thread bound to a user chat is blocked, no event of that *)
(* chat (a new message, an edit, a reaction, a `#del' reply) leads to a    *)
(* call that changes the owner's group: no copy, send, edit, delete or     *)
(* set-reaction addressed to the group.                                    *)
BlockedSender ==
  /\ ev.kind \in {"private", "uedit", "ureact", "udelete"}
  /\ ev.pc = "done"
  /\ Truthy(EvTopic)
  /\ isTopicBanned(ev.meta, EvTopic)
C39_BlockedChatIsSilent ==
  BlockedSender => \A i \in 1..Len(ev.calls) : ev.calls[i].chat \notin Groups

(* C40: a read of the key-value store that fails during an append to the   *)
(* message index or a purge of a thread loses none of the links stored     *)
(* before: after the operation every earlier link is still stored, except  *)
(* the ones evicted by the cap and the ones of the purged thread.          *)
StaysStored(i) ==
  IF xlast.op = "append"
  THEN i > Len(xlast.before) + 1 - MAX_KV_MAPPINGS
  ELSE xlast.before[i].topicId # xlast.thread
C40_FailedReadKeepsLinks ==
  xlast.op \in {"append", "purge"} =>
    \A i \in 1..Len(xlast.before) :
      StaysStored(i) => xlast.before[i] \in Pairs(kvLinks[IndexGroup])

====
